---- MODULE Spec2Model ----
(***************************************************************************)
(* Model of the RTL8125 descriptor-ring driver of src/pcie_test_impl.c:    *)
(* rtl8125_init, rtl8125_send_packet and rtl8125_recv_packet, the CPU data *)
(* cache in front of the descriptors, and the DMA device on the other side *)
(* of the rings.                                                           *)
(*                                                                         *)
(* A descriptor status word is kept as the set of its flag bits (by bit    *)
(* number) and the value of its low 14 bits, the length field.  A 32-bit   *)
(* value that can exceed 2^31-1 is kept as a pair <<high half, low half>>  *)
(* of 16-bit halves.                                                       *)
(*                                                                         *)
(* Every straight-line step of a call that the device can observe is an    *)
(* action of its own, so that the device (DevTxDone, DevRxDeliver) and the *)
(* cache (CacheWriteBack) interleave with the call.  A poll loop is one    *)
(* action: its iterations are identical, the device may answer before the  *)
(* first poll, before one of the first MaxEarlyPoll polls, before the last *)
(* poll, or not at all, and polls counts the iterations made.              *)
(***************************************************************************)
EXTENDS Integers, Sequences, FiniteSets, TLC

\* ---------------------------------------------------------------- constants
NUM_TX_DESC == 4
NUM_RX_DESC == 4
RX_BUF_SIZE == 2048
TX_BUF_SIZE == 2048
\* bit numbers of the descriptor flags (the source gives the masks)
DESC_OWN == 31
DESC_EOR == 30
DESC_FS == 29
DESC_LS == 28
\* bit number of the receive error flag, mask 0x00200000
RX_RES == 21
\* mask of the length field, 0x3FFF
LEN_MASK == 16383
\* shortest frame without FCS; shorter payloads are zero padded
ETH_ZLEN == 60
\* bytes of frame check sequence taken off the received length
FCS_LEN == 4
\* poll budget of the transmit completion loop
TX_POLL_BUDGET == 10000
\* polls per millisecond of receive timeout
RX_POLLS_PER_MS == 100
\* 0x50300000 and 0x50400000, the fixed buffer regions
TX_BUF_BASE == 1345323008
RX_BUF_BASE == 1346371584
\* 2^16, the radix of the two halves of a 32-bit value
HALF == 2^16
\* the unrolled ATU register block: region stride and register offsets
ATU_REGION_SIZE == 512
ATU_REGION_CTRL1 == 0
ATU_REGION_CTRL2 == 4
ATU_LOWER_BASE == 8
ATU_UPPER_BASE == 12
ATU_LOWER_LIMIT == 16
ATU_UPPER_LIMIT == 20
ATU_LOWER_TARGET == 24
ATU_UPPER_TARGET == 28
PCIE_ATU_REGION_INDEX0 == 0
PCIE_ATU_REGION_INDEX1 == 1
PCIE_ATU_TYPE_MEM == 0
PCIE_ATU_TYPE_CFG0 == 4
\* uint32_t retries = 5
ATU_RETRIES == 5
\* offsets of configuration registers
PCIE_CFG_VENDOR_ID == 0
PCIE_CFG_COMMAND == 4
PCIE_CFG_CLASS_REV == 8
PCIE_CFG_BAR0 == 16
\* bits of the command register
PCIE_CMD_IO_ENABLE == 1
PCIE_CMD_MEM_ENABLE == 2
PCIE_CMD_BUS_MASTER == 4
PCIE_CMD_INT_DISABLE == 1024
\* pcie_get_bar_info(dbi_base_virt, mmio_base_virt, 2, ...)
TEST_BAR_NUM == 2
\* for (i = 0; i < 1000; i++), the reset poll of rtl8125_init
RESET_POLL_BUDGET == 1000

\* ------------------------------------------------------------------- bounds
\* the device may answer a poll loop before poll 2..MaxEarlyPoll
MaxEarlyPoll == 2
\* frames the device has filled and the host has not yet taken
MaxRxPending == 2
\* payload lengths passed to rtl8125_send_packet: one accepted (and padded),
\* one oversize
SendLens == {10, TX_BUF_SIZE + 1}
\* timeout_ms passed to rtl8125_recv_packet, as <<high half, low half>>:
\* 0, 1 and 42949673 (the smallest value whose product with 100 exceeds 2^32)
RecvTimeouts == {<<0, 0>>, <<0, 1>>, <<655, 23593>>}
\* length fields the device writes into a completed receive descriptor
RxLenFields == {64}
\* offsets of the configuration registers kept: the command register and BAR0
CfgOffsets == {4, 16}
\* the configuration registers the device model keeps: vendor and device ID,
\* command and status, class and revision, BAR 0, BAR 2 and BAR 3
CfgRegs ==
    {PCIE_CFG_VENDOR_ID, PCIE_CFG_COMMAND, PCIE_CFG_CLASS_REV, PCIE_CFG_BAR0,
     PCIE_CFG_BAR0 + 4 * TEST_BAR_NUM, PCIE_CFG_BAR0 + 4 * TEST_BAR_NUM + 4}
\* values written to them: 0xFFFFFFFF and 0x12345678
CfgValues == {<<HALF - 1, HALF - 1>>, <<4660, 22136>>}
\* bar_phys passed to the accessors: 0 and 0x140100000
CfgBars == {<<0, 0, 0, 0>>, <<0, 1, 16400, 0>>}
\* calls of dw_pcie_setup_atu made from outside the accessors, as
\* <<region_index, type, cpu_addr, pci_addr, size>>: a memory window of
\* 0x2000 bytes at 0xFFFFF000 onto 0x100000000, whose limit carries into the
\* upper word, and one of size 0 at 0x40000000
AtuCalls ==
    { <<0, <<0, 0>>, <<0, 0, 65535, 61440>>, <<0, 1, 0, 0>>, <<0, 0, 0, 8192>> >>,
      <<0, <<0, 0>>, <<0, 0, 16384, 0>>, <<0, 0, 0, 0>>, <<0, 0, 0, 0>> >> }

VARIABLES
    inited,      \* tx_ring, rx_ring and the buffer pointers are set
    tx_idx,      \* static uint32_t tx_idx
    rx_idx,      \* static uint32_t rx_idx
    tx_mem,      \* transmit descriptors as held in memory (what the device sees)
    rx_mem,      \* receive descriptors as held in memory
    tx_cache,    \* CPU cache lines of the transmit descriptors
    rx_cache,    \* CPU cache lines of the receive descriptors
    tx_buf,      \* transmit buffers as the CPU wrote them
    tx_buf_mem,  \* transmit buffers as held in memory
    rx_buf_mem,  \* receive buffers as held in memory (written by the device)
    dev_tx,      \* descriptor the device fetches next for transmit
    dev_rx,      \* descriptor the device fills next on receive
    dev_keeps,   \* the device's write-back leaves the buffer address in place
    pc,          \* position of the single thread of control
    call,        \* the call in progress, or the last one made
    slot,        \* ring index the call works on
    arg_len,     \* len argument of rtl8125_send_packet
    arg_tmo,     \* timeout_ms argument of rtl8125_recv_packet
    pad_len,     \* local pad_len of rtl8125_send_packet
    polls,       \* iterations made by the poll loop of the call
    st,          \* status word read by the check after the poll loop
    ret,         \* return value of the last call
    buffer,      \* bytes the call copied into the caller's buffer
    len_out,     \* value the call stored to *len, NotWritten if none
    log,         \* hardware-visible operations of the call, in program order
    sent,        \* what a harness handed to the call under test, to compare with
    timeout,     \* local timeout of a poll loop taken one iteration at a time
    atu,         \* ATU region registers, per region
    atu_on,      \* per region: a read of control2 shows the enable bit
    cfg_space,   \* the device's configuration registers, by offset
    frame,       \* arguments and locals of the dw_pcie_setup_atu call
    acc,         \* arguments and locals of the pcie_config_read32/write32 call
    dev_bar,     \* the device's BAR 2: its writable bits and its hardwired low bits
    drv          \* arguments, locals and results of the caller of the accessors

vars == <<inited, tx_idx, rx_idx, tx_mem, rx_mem, tx_cache, rx_cache, tx_buf,
          tx_buf_mem, rx_buf_mem, dev_tx, dev_rx, dev_keeps, pc, call, slot, arg_len,
          arg_tmo, pad_len, polls, st, ret, buffer, len_out, log, sent, timeout,
          atu, atu_on, cfg_space, frame, acc, dev_bar, drv>>

ringVars == <<tx_mem, rx_mem, tx_cache, rx_cache>>
bufVars == <<tx_buf, tx_buf_mem, rx_buf_mem>>
devVars == <<dev_tx, dev_rx>>
argVars == <<call, slot, arg_len, arg_tmo>>
outVars == <<buffer, len_out>>
\* what the window manager and the accessor work on
atuVars == <<atu, atu_on, cfg_space, frame, acc>>
\* the kind of device on the bus, and the frame of the caller of the accessors:
\* what no step of the ring driver, the device or the cache touches
hwVars == <<dev_keeps, dev_bar, drv>>
\* what no step of the ring driver, the device or the cache touches
offRing == <<sent, timeout, atuVars>>
\* what no step of the window manager or the accessor touches
ringState == <<inited, tx_idx, rx_idx, ringVars, bufVars, devVars, dev_keeps, dev_bar, slot,
               arg_len, arg_tmo, pad_len, st, outVars, sent, timeout>>

\* ------------------------------------------------------------ status words
Word(flags, low) == [flags |-> flags, len |-> low]

ZeroWord == Word({}, 0)

Own(w) == DESC_OWN \in w.flags

\* rtl_desc_t
Desc(status, lo) ==
    [status |-> status, vlan_tag |-> 0, buf_addr_lo |-> lo, buf_addr_hi |-> 0]

ZeroDesc == Desc(ZeroWord, 0)

TxBufAddr(i) == TX_BUF_BASE + i * TX_BUF_SIZE

RxBufAddr(i) == RX_BUF_BASE + i * RX_BUF_SIZE

\* --------------------------------------------------------------- CPU cache
NoLine == [present |-> FALSE, dirty |-> FALSE, d |-> ZeroDesc]

CleanLine(d) == [present |-> TRUE, dirty |-> FALSE, d |-> d]

\* what a CPU load of the descriptor returns
CpuView(line, mem) == IF line.present THEN line.d ELSE mem

\* a CPU store to the descriptor: allocate the line, change it, mark it dirty
StoreLine(d) == [present |-> TRUE, dirty |-> TRUE, d |-> d]

\* clean_dcache_va_range: a dirty line is written to memory and stays cached
MemAfterClean(line, mem) == IF line.present /\ line.dirty THEN line.d ELSE mem

LineAfterClean(line) == [line EXCEPT !.dirty = FALSE]

\* a load with no invalidate before it: the cached copy, or memory if the
\* clean line has been evicted in the meantime
StaleReads(line, mem) ==
    IF line.present THEN (IF line.dirty THEN {line.d} ELSE {line.d, mem})
    ELSE {mem}

\* ------------------------------------------------------------------- ring
NextIdx_m(i, n) == (i + 1) % (n - 1)

NextIdx(i, n) == (i + 1) % n

\* the device follows end-of-ring: it wraps to 0 only on a descriptor that
\* carries the flag, otherwise it goes on to the next 16 bytes
DevNext(flags, pos) == IF DESC_EOR \in flags THEN 0 ELSE pos + 1

\* the device hands a transmitted descriptor back: ownership cleared
DevTxStatus(w) == [w EXCEPT !.flags = @ \ {DESC_OWN}]

\* the device hands a filled receive descriptor back
DevRxStatus(w, err, f) ==
    Word((w.flags \cap {DESC_EOR}) \cup {DESC_FS, DESC_LS}
             \cup (IF err THEN {RX_RES} ELSE {}), f)

\* polls before which the device may answer, besides the first
PollPoints(budget) ==
    {k \in 2..MaxEarlyPoll : k <= budget} \cup (IF budget >= 2 THEN {budget} ELSE {})

\* ------------------------------------------------------------------- log
Append2(s, a, b) == Append(Append(s, a), b)

Positions(s, e) == {i \in 1..Len(s) : s[i] = e}

Count(s, e) == Cardinality(Positions(s, e))

NotWritten == -1

\* bytes of a buffer: len bytes of the payload handed to send, then pad zero
\* bytes, then junk bytes of any other origin
Bytes(len, pad, junk) == [len |-> len, pad |-> pad, junk |-> junk]

Min(a, b) == IF a < b THEN a ELSE b

Max(a, b) == IF a > b THEN a ELSE b

\* the first n bytes of a transmit buffer holding shape s, as a DMA read of n
\* bytes finds them
Prefix(s, n) ==
    Bytes(Min(n, s.len), Max(0, Min(n, s.len + s.pad) - s.len),
          Max(0, n - s.len - s.pad))

NoBytes == [n |-> 0, from |-> -1, data |-> Bytes(0, 0, 0)]

\* ------------------------------------------------- 32- and 64-bit values
\* a uint32_t is <<high half, low half>>, a uint64_t four halves, high first
Zero32 == <<0, 0>>

AllOnes32 == <<HALF - 1, HALF - 1>>

Zero64 == <<0, 0, 0, 0>>

\* (uint32_t) (a & 0xFFFFFFFF)
Lo32(a) == <<a[3], a[4]>>

\* (uint32_t) (a >> 32)
Hi32(a) == <<a[1], a[2]>>

\* a uint32_t widened to uint64_t
Wide(w) == <<0, 0, w[1], w[2]>>

\* two 32-bit registers read as one 64-bit value
Join(hi, lo) == <<hi[1], hi[2], lo[1], lo[2]>>

\* a + b in 64 bits
Add64(a, b) ==
    LET s4 == a[4] + b[4]
        s3 == a[3] + b[3] + s4 \div HALF
        s2 == a[2] + b[2] + s3 \div HALF
        s1 == a[1] + b[1] + s2 \div HALF
    IN  <<s1 % HALF, s2 % HALF, s3 % HALF, s4 % HALF>>

\* a - 1 in 64 bits
Dec64(a) == Add64(a, <<HALF - 1, HALF - 1, HALF - 1, HALF - 1>>)

\* a - b in 64 bits
Sub64(a, b) ==
    Add64(Add64(a, <<HALF - 1 - b[1], HALF - 1 - b[2], HALF - 1 - b[3], HALF - 1 - b[4]>>),
          <<0, 0, 0, 1>>)

RECURSIVE LeFrom(_, _, _)
LeFrom(a, b, i) ==
    IF i > Len(a) THEN TRUE
    ELSE IF a[i] # b[i] THEN a[i] < b[i]
    ELSE LeFrom(a, b, i + 1)

\* a <= b, unsigned
Le64(a, b) == LeFrom(a, b, 1)

\* ---------------------------------------------------- ATU register block
\* byte offset of a region's register in the unrolled ATU block:
\* region_index * ATU_REGION_SIZE + register offset
AtuReg(region, off) == region * ATU_REGION_SIZE + off

AtuRegOffsets ==
    {ATU_REGION_CTRL1, ATU_REGION_CTRL2, ATU_LOWER_BASE, ATU_UPPER_BASE,
     ATU_LOWER_LIMIT, ATU_UPPER_LIMIT, ATU_LOWER_TARGET, ATU_UPPER_TARGET}

\* the regions of the controller that the model keeps
AtuRegions == {PCIE_ATU_REGION_INDEX0, PCIE_ATU_REGION_INDEX1}

AtuRegs == {AtuReg(r, o) : r \in AtuRegions, o \in AtuRegOffsets}

\* PCIE_ATU_ENABLE, 1 << 31
AtuEnable == <<HALF \div 2, 0>>

\* val & PCIE_ATU_ENABLE
HasEnable(w) == w[1] >= HALF \div 2

\* PCIE_ATU_TYPE_MEM and PCIE_ATU_TYPE_CFG0 as written to control1
TypeMem == <<0, PCIE_ATU_TYPE_MEM>>

TypeCfg0 == <<0, PCIE_ATU_TYPE_CFG0>>

\* 0xf3000000, 0x100000: the configuration window of the accessor
CfgWindowCpu == <<0, 0, 62208, 0>>

CfgWindowSize == <<0, 0, 16, 0>>

\* 0x9c0100000, 0x10000: the memory window the accessor restores
MemWindowCpu == <<0, 9, 49168, 0>>

MemWindowSize == <<0, 0, 1, 0>>

NoFrame ==
    [region |-> 0, type |-> Zero32, cpu_addr |-> Zero64, pci_addr |-> Zero64,
     size |-> Zero64, step |-> 0, retries |-> 0, ret |-> 0, ret_to |-> "idle"]

NoValue == <<>>

NoAcc ==
    [op |-> "none", cfg_base |-> Zero64, bar_phys |-> Zero64, offset |-> Zero32,
     value |-> Zero32, restore |-> FALSE, val |-> NoValue, raw |-> 0, maps |-> 0]

\* no payload or value under test
NoPayload == <<>>

\* a BAR all of whose bits are storage: a plain read/write register
PlainBar == [mask |-> AllOnes32, low |-> 0]

\* no call of a caller of the accessors made yet
NoDrv ==
    [fn |-> "none", step |-> 0, ret |-> 0, seq |-> 0, vendor |-> NotWritten,
     device |-> NotWritten, class |-> NoValue, orig |-> NoValue, val |-> NoValue,
     addr |-> NoValue, size |-> NoValue, bar_phys |-> NoValue, cmd |-> NoValue,
     accs |-> <<>>, pre |-> NoValue, prev |-> NoValue,
     phase |-> "single", who |-> 1, other |-> NoValue, called |-> <<FALSE, FALSE>>,
     locking |-> FALSE, mem |-> FALSE, stray |-> FALSE]

\* a & b on two 16-bit halves
RECURSIVE BitAnd(_, _)
BitAnd(a, b) ==
    IF a = 0 \/ b = 0 THEN 0
    ELSE (a % 2) * (b % 2) + 2 * BitAnd(a \div 2, b \div 2)

\* x & y in 32 bits
And32(x, y) == <<BitAnd(x[1], y[1]), BitAnd(x[2], y[2])>>

\* (~x) + 1 in 32 bits
Neg32(x) ==
    LET lo == (HALF - 1 - x[2]) + 1
    IN  <<((HALF - 1 - x[1]) + lo \div HALF) % HALF, lo % HALF>>

\* ------------------------------------------------------------------- Init
TxShape(len, pad) == [len |-> len, pad |-> pad]

\* the state after construction, facing a device with the configuration
\* space cs and the BAR 2 of kind bar
InitWith(cs, bar) ==
    /\ inited = FALSE
    /\ tx_idx = 0
    /\ rx_idx = 0
    /\ tx_mem = [i \in 0..NUM_TX_DESC - 1 |-> ZeroDesc]
    /\ rx_mem = [i \in 0..NUM_RX_DESC - 1 |-> ZeroDesc]
    /\ tx_cache = [i \in 0..NUM_TX_DESC - 1 |-> NoLine]
    /\ rx_cache = [i \in 0..NUM_RX_DESC - 1 |-> NoLine]
    /\ tx_buf = [i \in 0..NUM_TX_DESC - 1 |-> TxShape(0, 0)]
    /\ tx_buf_mem = [i \in 0..NUM_TX_DESC - 1 |-> TxShape(0, 0)]
    /\ rx_buf_mem = [i \in 0..NUM_RX_DESC - 1 |-> Bytes(0, 0, 0)]
    /\ dev_tx = 0
    /\ dev_rx = 0
    /\ dev_keeps \in BOOLEAN
    /\ pc = "idle"
    /\ call = "none"
    /\ slot = 0
    /\ arg_len = 0
    /\ arg_tmo = <<0, 0>>
    /\ pad_len = 0
    /\ polls = 0
    /\ st = ZeroWord
    /\ ret = 0
    /\ buffer = NoBytes
    /\ len_out = NotWritten
    /\ log = <<>>
    /\ sent = NoPayload
    /\ timeout = 0
    /\ atu = [a \in AtuRegs |-> Zero32]
    /\ atu_on = [r \in AtuRegions |-> FALSE]
    /\ cfg_space = cs
    /\ frame = NoFrame
    /\ acc = NoAcc
    /\ dev_bar = bar
    /\ drv = NoDrv

Init == InitWith([o \in CfgRegs |-> Zero32], PlainBar)

\* the call of that name has returned and no other has been made since
Returned(name) == pc = "idle" /\ call = name

\* what every call resets on entry
Enter(name, s, len, tmo) ==
    /\ call' = name
    /\ slot' = s
    /\ arg_len' = len
    /\ arg_tmo' = tmo
    /\ pad_len' = 0
    /\ polls' = 0
    /\ st' = ZeroWord
    /\ buffer' = NoBytes
    /\ len_out' = NotWritten
    /\ log' = <<>>

\* ----------------------------------------------------------- rtl8125_init
TxInitStatus(i) == IF i = NUM_TX_DESC - 1 THEN Word({DESC_EOR}, 0) ELSE ZeroWord

RxInitStatus_m(i) == Word({DESC_OWN, DESC_EOR}, RX_BUF_SIZE)

RxInitStatus(i) ==
    IF i = NUM_RX_DESC - 1 THEN Word({DESC_OWN, DESC_EOR}, RX_BUF_SIZE)
    ELSE Word({DESC_OWN}, RX_BUF_SIZE)

\* the reset bit cleared within the 1000 polls: rings written, cleaned and
\* handed to the freshly reset device; tx_idx and rx_idx are not assigned
InitOk ==
    /\ pc = "idle"
    /\ Enter("init", 0, 0, <<0, 0>>)
    /\ inited' = TRUE
    /\ tx_mem' = [i \in 0..NUM_TX_DESC - 1 |-> Desc(TxInitStatus(i), TxBufAddr(i))]
    /\ rx_mem' = [i \in 0..NUM_RX_DESC - 1 |-> Desc(RxInitStatus(i), RxBufAddr(i))]
    /\ tx_cache' = [i \in 0..NUM_TX_DESC - 1 |-> CleanLine(tx_mem'[i])]
    /\ rx_cache' = [i \in 0..NUM_RX_DESC - 1 |-> CleanLine(rx_mem'[i])]
    /\ dev_tx' = 0
    /\ dev_rx' = 0
    /\ ret' = 0
    /\ UNCHANGED <<offRing, hwVars, tx_idx, rx_idx, bufVars, pc>>

\* the reset bit never cleared: return -1 before anything is set up
InitResetTimeout ==
    /\ pc = "idle"
    /\ Enter("init", 0, 0, <<0, 0>>)
    /\ ret' = -1
    /\ UNCHANGED <<offRing, inited, hwVars, tx_idx, rx_idx, ringVars, bufVars, devVars, pc>>

rtl8125_init == InitOk \/ InitResetTimeout

\* ---------------------------------------------------- rtl8125_send_packet
Oversize_m(len) == len > TX_BUF_SIZE + 1

Oversize(len) == len > TX_BUF_SIZE

PadLen_m(len) == len

\* uint32_t pad_len = len; if (pad_len < 60) pad_len = 60
PadLen(len) == IF len < ETH_ZLEN THEN ETH_ZLEN ELSE len

TxStatus(plen) == Word({DESC_OWN, DESC_FS, DESC_LS}, plen)

\* entry and the two rejections
SendCall(len) ==
    /\ pc = "idle"
    /\ Enter("send", tx_idx, len, <<0, 0>>)
    /\ IF ~inited \/ Oversize(len)
       THEN /\ ret' = -1
            /\ pc' = "idle"
       ELSE /\ ret' = 0
            /\ pc' = "tx_copy"
    /\ UNCHANGED <<offRing, inited, hwVars, tx_idx, rx_idx, ringVars, bufVars, devVars>>

\* memcpy_local of the payload, memset_local of the padding
TxCopy ==
    /\ pc = "tx_copy"
    /\ tx_buf' = [tx_buf EXCEPT ![tx_idx] = TxShape(arg_len, PadLen(arg_len) - arg_len)]
    /\ pad_len' = PadLen(arg_len)
    /\ log' = Append(log, "copy")
    /\ pc' = "tx_clean_buf"
    /\ UNCHANGED <<offRing, inited, hwVars, tx_idx, rx_idx, ringVars, tx_buf_mem, rx_buf_mem,
                   devVars, argVars, polls, st, ret, outVars>>

TxCleanBuf_m ==
    /\ pc = "tx_clean_buf"
    /\ pc' = "tx_status"
    /\ UNCHANGED <<offRing, inited, hwVars, tx_idx, rx_idx, ringVars, bufVars, devVars, argVars,
                   pad_len, polls, st, ret, outVars, log>>

\* clean of the buffer's cache lines
TxCleanBuf ==
    /\ pc = "tx_clean_buf"
    /\ tx_buf_mem' = [tx_buf_mem EXCEPT ![tx_idx] = tx_buf[tx_idx]]
    /\ log' = Append(log, "clean_buf")
    /\ pc' = "tx_status"
    /\ UNCHANGED <<offRing, inited, hwVars, tx_idx, rx_idx, ringVars, tx_buf, rx_buf_mem,
                   devVars, argVars, pad_len, polls, st, ret, outVars>>

\* tx_ring[tx_idx].status = DESC_OWN | DESC_FS | DESC_LS | pad_len
TxSetStatus ==
    /\ pc = "tx_status"
    /\ tx_cache' = [tx_cache EXCEPT ![tx_idx] =
           StoreLine([CpuView(@, tx_mem[tx_idx]) EXCEPT !.status = TxStatus(pad_len)])]
    /\ log' = Append(log, "own_write")
    /\ pc' = "tx_clean_desc"
    /\ UNCHANGED <<offRing, inited, hwVars, tx_idx, rx_idx, tx_mem, rx_mem, rx_cache, bufVars,
                   devVars, argVars, pad_len, polls, st, ret, outVars>>

\* clean of the descriptor's cache lines
TxCleanDesc ==
    /\ pc = "tx_clean_desc"
    /\ tx_mem' = [tx_mem EXCEPT ![tx_idx] = MemAfterClean(tx_cache[tx_idx], @)]
    /\ tx_cache' = [tx_cache EXCEPT ![tx_idx] = LineAfterClean(@)]
    /\ log' = Append(log, "clean_desc")
    /\ pc' = "tx_kick"
    /\ UNCHANGED <<offRing, inited, hwVars, tx_idx, rx_idx, rx_mem, rx_cache, bufVars,
                   devVars, argVars, pad_len, polls, st, ret, outVars>>

TxKick_m ==
    /\ pc = "tx_kick"
    /\ log' = Append2(log, "txpoll", "txpoll")
    /\ pc' = "tx_poll"
    /\ UNCHANGED <<offRing, inited, hwVars, tx_idx, rx_idx, ringVars, bufVars, devVars, argVars,
                   pad_len, polls, st, ret, outVars>>

\* rtl_write8(RTL8125_TxPoll, 0x01)
TxKick ==
    /\ pc = "tx_kick"
    /\ log' = Append(log, "txpoll")
    /\ pc' = "tx_poll"
    /\ UNCHANGED <<offRing, inited, hwVars, tx_idx, rx_idx, ringVars, bufVars, devVars, argVars,
                   pad_len, polls, st, ret, outVars>>

\* while (timeout--) { invalidate; if (!(status & DESC_OWN)) break; udelay }
TxPoll ==
    /\ pc = "tx_poll"
    /\ \/ \* memory shows the descriptor handed back at the first poll
          /\ ~Own(tx_mem[tx_idx].status)
          /\ polls' = 1
          /\ UNCHANGED <<tx_mem, dev_tx>>
       \/ \* the device stays silent for the whole budget
          /\ Own(tx_mem[tx_idx].status)
          /\ polls' = TX_POLL_BUDGET
          /\ UNCHANGED <<tx_mem, dev_tx>>
       \/ \* the device hands the descriptor back just before poll k
          /\ Own(tx_mem[tx_idx].status)
          /\ dev_tx = tx_idx
          /\ \E k \in PollPoints(TX_POLL_BUDGET) : polls' = k
          /\ tx_mem' = [tx_mem EXCEPT ![tx_idx].status = DevTxStatus(@)]
          /\ dev_tx' = DevNext(tx_mem[tx_idx].status.flags, dev_tx)
    /\ tx_cache' = [tx_cache EXCEPT ![tx_idx] = CleanLine(tx_mem'[tx_idx])]
    /\ log' = Append2(log, "inval_desc", "read_status")
    /\ pc' = "tx_check"
    /\ UNCHANGED <<offRing, inited, hwVars, tx_idx, rx_idx, rx_mem, rx_cache, bufVars, dev_rx,
                   argVars, pad_len, st, ret, outVars>>

\* if (status & DESC_OWN) return -1; tx_idx = (tx_idx + 1) % NUM_TX_DESC
TxCheck ==
    /\ pc = "tx_check"
    /\ \E d \in StaleReads(tx_cache[tx_idx], tx_mem[tx_idx]) :
          /\ st' = d.status
          /\ tx_cache' = [tx_cache EXCEPT ![tx_idx] = CleanLine(d)]
    /\ log' = Append(log, "read_status")
    /\ IF Own(st')
       THEN /\ ret' = -1
            /\ tx_idx' = tx_idx
       ELSE /\ ret' = 0
            /\ tx_idx' = NextIdx(tx_idx, NUM_TX_DESC)
    /\ pc' = "idle"
    /\ UNCHANGED <<offRing, inited, hwVars, rx_idx, tx_mem, rx_mem, rx_cache, bufVars, devVars,
                   argVars, pad_len, polls, outVars>>

rtl8125_send_packet ==
    \/ \E len \in SendLens : SendCall(len)
    \/ TxCopy
    \/ TxCleanBuf
    \/ TxSetStatus
    \/ TxCleanDesc
    \/ TxKick
    \/ TxPoll
    \/ TxCheck

\* ---------------------------------------------------- rtl8125_recv_packet
\* 32-bit product timeout_ms * 100 on the two halves of timeout_ms
Mul100(t) ==
    LET lo == t[2] * RX_POLLS_PER_MS
    IN  <<(t[1] * RX_POLLS_PER_MS + lo \div HALF) % HALF, lo % HALF>>

\* value of a 32-bit pair
U32Val(p) == p[1] * HALF + p[2]

\* uint32_t timeout = timeout_ms * 100
RxBudget(t) == U32Val(Mul100(t))

\* (status & 0x3FFF) - 4 in 32 bits
LenMinusFcs(w) ==
    LET f == w.len % (LEN_MASK + 1)
    IN  IF f >= FCS_LEN THEN <<0, f - FCS_LEN>>
        ELSE <<HALF - 1, HALF - (FCS_LEN - f)>>

\* if (pkt_len > RX_BUF_SIZE) pkt_len = RX_BUF_SIZE
RxPktLen(w) ==
    LET p == LenMinusFcs(w)
    IN  IF p[1] > 0 \/ p[2] > RX_BUF_SIZE THEN RX_BUF_SIZE ELSE p[2]

RxRearmStatus_m(i) == Word({DESC_OWN}, RX_BUF_SIZE)

\* the status written back when the slot is re-armed
RxRearmStatus(i) ==
    IF i = NUM_RX_DESC - 1 THEN Word({DESC_OWN, DESC_EOR}, RX_BUF_SIZE)
    ELSE Word({DESC_OWN}, RX_BUF_SIZE)

RxError_m(w) == FALSE

\* status & 0x00200000
RxError(w) == RX_RES \in w.flags

\* the device fills the receive descriptor it is at with a frame of f bytes
\* from the wire (frame check sequence included) and hands it back; its
\* write-back leaves the buffer address in place or clears it, which of the
\* two is a property of the device
RxPending == Cardinality({i \in 0..NUM_RX_DESC - 1 : ~Own(rx_mem[i].status)})

DevRxFill(err, f) ==
    /\ RxPending < MaxRxPending
    /\ rx_mem' = [rx_mem EXCEPT ![dev_rx] =
           [@ EXCEPT !.status = DevRxStatus(@, err, f),
                     !.buf_addr_lo = IF dev_keeps THEN @ ELSE 0]]
    /\ rx_buf_mem' = [rx_buf_mem EXCEPT ![dev_rx] = Bytes(0, 0, f)]
    /\ dev_rx' = DevNext(rx_mem[dev_rx].status.flags, dev_rx)

\* entry and the rejection of an uninitialised ring
RecvCall(tmo) ==
    /\ pc = "idle"
    /\ Enter("recv", rx_idx, 0, tmo)
    /\ IF ~inited
       THEN /\ ret' = -1
            /\ pc' = "idle"
       ELSE /\ ret' = 0
            /\ pc' = "rx_poll"
    /\ UNCHANGED <<offRing, inited, hwVars, tx_idx, rx_idx, ringVars, bufVars, devVars>>

\* while (timeout--) { invalidate; if (!(status & DESC_OWN)) break; udelay }
RxPoll ==
    /\ pc = "rx_poll"
    /\ \/ \* timeout_ms * 100 is 0: the loop body never runs
          /\ RxBudget(arg_tmo) = 0
          /\ polls' = 0
          /\ UNCHANGED <<rx_mem, rx_buf_mem, dev_rx, rx_cache, log>>
       \/ /\ RxBudget(arg_tmo) > 0
          /\ \/ \* memory shows the descriptor handed back at the first poll
                /\ ~Own(rx_mem[rx_idx].status)
                /\ polls' = 1
                /\ UNCHANGED <<rx_mem, rx_buf_mem, dev_rx>>
             \/ \* the device stays silent for the whole budget
                /\ Own(rx_mem[rx_idx].status)
                /\ polls' = RxBudget(arg_tmo)
                /\ UNCHANGED <<rx_mem, rx_buf_mem, dev_rx>>
             \/ \* the device hands the descriptor back just before poll k
                /\ Own(rx_mem[rx_idx].status)
                /\ dev_rx = rx_idx
                /\ \E k \in PollPoints(RxBudget(arg_tmo)) : polls' = k
                /\ \E err \in BOOLEAN, f \in RxLenFields : DevRxFill(err, f)
          /\ rx_cache' = [rx_cache EXCEPT ![rx_idx] = CleanLine(rx_mem'[rx_idx])]
          /\ log' = Append2(log, "inval_desc", "read_status")
    /\ pc' = "rx_check"
    /\ UNCHANGED <<offRing, inited, hwVars, tx_idx, rx_idx, tx_mem, tx_cache, tx_buf, tx_buf_mem,
                   dev_tx, argVars, pad_len, st, ret, outVars>>

\* if (status & DESC_OWN) return -1; if (status & 0x00200000) goto reinit_desc
RxCheck ==
    /\ pc = "rx_check"
    /\ \E d \in StaleReads(rx_cache[rx_idx], rx_mem[rx_idx]) :
          /\ st' = d.status
          /\ rx_cache' = [rx_cache EXCEPT ![rx_idx] = CleanLine(d)]
    /\ log' = Append(log, "read_status")
    /\ IF Own(st')
       THEN /\ ret' = -1
            /\ pc' = "idle"
       ELSE /\ ret' = ret
            /\ pc' = IF RxError(st') THEN "rx_rearm_status" ELSE "rx_inval_buf"
    /\ UNCHANGED <<offRing, inited, hwVars, tx_idx, rx_idx, tx_mem, rx_mem, tx_cache, bufVars,
                   devVars, argVars, pad_len, polls, outVars>>

\* invalidate of the buffer's cache lines over pkt_len bytes
RxInvalBuf ==
    /\ pc = "rx_inval_buf"
    /\ log' = Append(log, "inval_buf")
    /\ pc' = "rx_copy"
    /\ UNCHANGED <<offRing, inited, hwVars, tx_idx, rx_idx, ringVars, bufVars, devVars, argVars,
                   pad_len, polls, st, ret, outVars>>

\* memcpy_local(buffer, rx_buffers[rx_idx], pkt_len); *len = pkt_len
RxCopy ==
    /\ pc = "rx_copy"
    /\ buffer' = [n |-> RxPktLen(st), from |-> rx_idx, data |-> Prefix(rx_buf_mem[rx_idx], RxPktLen(st))]
    /\ len_out' = RxPktLen(st)
    /\ log' = Append(log, "copy_out")
    /\ pc' = "rx_rearm_status"
    /\ UNCHANGED <<offRing, inited, hwVars, tx_idx, rx_idx, ringVars, bufVars, devVars, argVars,
                   pad_len, polls, st, ret>>

\* reinit_desc: rx_ring[rx_idx].status = (DESC_OWN [| DESC_EOR]) + RX_BUF_SIZE
RxRearm ==
    /\ pc = "rx_rearm_status"
    /\ rx_cache' = [rx_cache EXCEPT ![rx_idx] =
           StoreLine([CpuView(@, rx_mem[rx_idx]) EXCEPT !.status = RxRearmStatus(rx_idx)])]
    /\ log' = Append(log, "rearm_status")
    /\ pc' = "rx_rearm_addr"
    /\ UNCHANGED <<offRing, inited, hwVars, tx_idx, rx_idx, tx_mem, rx_mem, tx_cache, bufVars,
                   devVars, argVars, pad_len, polls, st, ret, outVars>>

\* rx_ring[rx_idx].buf_addr_lo = 0x50400000 + rx_idx * RX_BUF_SIZE; buf_addr_hi = 0
RxRearmAddr ==
    /\ pc = "rx_rearm_addr"
    /\ rx_cache' = [rx_cache EXCEPT ![rx_idx] =
           StoreLine([CpuView(@, rx_mem[rx_idx]) EXCEPT !.buf_addr_lo = RxBufAddr(rx_idx),
                                                         !.buf_addr_hi = 0])]
    /\ log' = Append(log, "rearm_addr")
    /\ pc' = "rx_clean_desc"
    /\ UNCHANGED <<offRing, inited, hwVars, tx_idx, rx_idx, tx_mem, rx_mem, tx_cache, bufVars,
                   devVars, argVars, pad_len, polls, st, ret, outVars>>

\* clean of the descriptor's cache lines; rx_idx = (rx_idx + 1) % NUM_RX_DESC
RxCleanDone ==
    /\ pc = "rx_clean_desc"
    /\ rx_mem' = [rx_mem EXCEPT ![rx_idx] = MemAfterClean(rx_cache[rx_idx], @)]
    /\ rx_cache' = [rx_cache EXCEPT ![rx_idx] = LineAfterClean(@)]
    /\ log' = Append(log, "clean_desc")
    /\ rx_idx' = NextIdx(rx_idx, NUM_RX_DESC)
    /\ ret' = 0
    /\ pc' = "idle"
    /\ UNCHANGED <<offRing, inited, hwVars, tx_idx, tx_mem, tx_cache, bufVars, devVars, argVars,
                   pad_len, polls, st, outVars>>

rtl8125_recv_packet ==
    \/ \E tmo \in RecvTimeouts : RecvCall(tmo)
    \/ RxPoll
    \/ RxCheck
    \/ RxInvalBuf
    \/ RxCopy
    \/ RxRearm
    \/ RxRearmAddr
    \/ RxCleanDone

\* ------------------------------------------------------------- the device
\* the device transmits the descriptor it is at and hands it back
DevTxDone ==
    /\ dev_tx < NUM_TX_DESC
    /\ Own(tx_mem[dev_tx].status)
    /\ tx_mem' = [tx_mem EXCEPT ![dev_tx].status = DevTxStatus(@)]
    /\ dev_tx' = DevNext(tx_mem[dev_tx].status.flags, dev_tx)
    /\ UNCHANGED <<offRing, inited, hwVars, tx_idx, rx_idx, rx_mem, tx_cache, rx_cache, bufVars,
                   dev_rx, pc, argVars, pad_len, polls, st, ret, outVars, log>>

\* the device receives a frame into the descriptor it is at
DevRxDeliver ==
    /\ dev_rx < NUM_RX_DESC
    /\ Own(rx_mem[dev_rx].status)
    /\ \E err \in BOOLEAN, f \in RxLenFields : DevRxFill(err, f)
    /\ UNCHANGED <<offRing, inited, hwVars, tx_idx, rx_idx, tx_mem, tx_cache, rx_cache, tx_buf,
                   tx_buf_mem, dev_tx, pc, argVars, pad_len, polls, st, ret,
                   outVars, log>>

\* ---------------------------------------------------------------- the cache
\* a dirty descriptor line may be written back before the code cleans it
CacheWriteBack ==
    \/ \E i \in 0..NUM_TX_DESC - 1 :
          /\ tx_cache[i].dirty
          /\ tx_mem' = [tx_mem EXCEPT ![i] = tx_cache[i].d]
          /\ tx_cache' = [tx_cache EXCEPT ![i] = LineAfterClean(@)]
          /\ UNCHANGED <<rx_mem, rx_cache>>
          /\ UNCHANGED <<offRing, inited, hwVars, tx_idx, rx_idx, bufVars, devVars, pc, argVars,
                         pad_len, polls, st, ret, outVars, log>>
    \/ \E i \in 0..NUM_RX_DESC - 1 :
          /\ rx_cache[i].dirty
          /\ rx_mem' = [rx_mem EXCEPT ![i] = rx_cache[i].d]
          /\ rx_cache' = [rx_cache EXCEPT ![i] = LineAfterClean(@)]
          /\ UNCHANGED <<tx_mem, tx_cache>>
          /\ UNCHANGED <<offRing, inited, hwVars, tx_idx, rx_idx, bufVars, devVars, pc, argVars,
                         pad_len, polls, st, ret, outVars, log>>

\* ------------------------------------------------------------- loopback
\* A device whose transmitter is wired to its receiver, and a harness that
\* initialises once and then sends a payload and receives it, again and
\* again.  The device acts as soon as it can, before the next CPU step.

\* payload lengths of the harness: padded, not padded, and the longest frame
\* that fits a receive buffer with its frame check sequence
LoopLens == {10, ETH_ZLEN, RX_BUF_SIZE - FCS_LEN}

\* the loopback device has a descriptor to transmit and one to receive into
LoopReady ==
    /\ dev_tx < NUM_TX_DESC
    /\ Own(tx_mem[dev_tx].status)
    /\ dev_rx < NUM_RX_DESC
    /\ Own(rx_mem[dev_rx].status)

\* the device reads the frame of the transmit descriptor it is at from the
\* buffer in memory, appends the frame check sequence, writes it to the
\* receive descriptor it is at, and hands both descriptors back
DevLoopback ==
    /\ LoopReady
    /\ tx_mem' = [tx_mem EXCEPT ![dev_tx].status = DevTxStatus(@)]
    /\ dev_tx' = DevNext(tx_mem[dev_tx].status.flags, dev_tx)
    /\ LET n == tx_mem[dev_tx].status.len
           b == Prefix(tx_buf_mem[dev_tx], n)
       IN  /\ rx_mem' = [rx_mem EXCEPT ![dev_rx] =
                  [@ EXCEPT !.status = DevRxStatus(@, FALSE, n + FCS_LEN),
                            !.buf_addr_lo = IF dev_keeps THEN @ ELSE 0]]
           /\ rx_buf_mem' = [rx_buf_mem EXCEPT ![dev_rx] =
                  Bytes(b.len, b.pad, b.junk + FCS_LEN)]
    /\ dev_rx' = DevNext(rx_mem[dev_rx].status.flags, dev_rx)
    /\ UNCHANGED <<offRing, inited, hwVars, tx_idx, rx_idx, tx_cache, rx_cache, tx_buf,
                   tx_buf_mem, pc, argVars, pad_len, polls, st, ret, outVars, log>>

\* the harness initialises the driver once
LoopInit == ~inited /\ InitOk

\* the harness sends a payload ...
LoopSend(len) ==
    /\ inited
    /\ call \in {"init", "recv"}
    /\ ret = 0
    /\ sent = NoPayload
    /\ SendCall(len)

\* ... which is noted as the payload under test before the call goes on ...
LoopNote ==
    /\ call = "send"
    /\ sent = NoPayload
    /\ sent' = <<arg_len>>
    /\ UNCHANGED <<inited, tx_idx, rx_idx, ringVars, bufVars, devVars, hwVars, pc,
                   argVars, pad_len, polls, st, ret, outVars, log, timeout, atuVars>>

\* ... and, the send having returned 0, receives with a timeout of 1 ms
LoopRecv == Returned("send") /\ ret = 0 /\ RecvCall(<<0, 1>>)

\* the harness is done with the payload once the receive has returned
LoopDone ==
    /\ Returned("recv")
    /\ sent # NoPayload
    /\ sent' = NoPayload
    /\ UNCHANGED <<inited, tx_idx, rx_idx, ringVars, bufVars, devVars, hwVars, pc,
                   argVars, pad_len, polls, st, ret, outVars, log, timeout, atuVars>>

\* a step inside a call, taken when the device has nothing to do
LoopStep ==
    /\ ~LoopReady
    /\ sent # NoPayload
    /\ \/ TxCopy
       \/ TxCleanBuf
       \/ TxSetStatus
       \/ TxCleanDesc
       \/ TxKick
       \/ TxPoll
       \/ TxCheck
       \/ RxPoll
       \/ RxCheck
       \/ RxInvalBuf
       \/ RxCopy
       \/ RxRearm
       \/ RxRearmAddr
       \/ RxCleanDone
       \/ CacheWriteBack

LoopNext ==
    \/ LoopInit
    \/ \E len \in LoopLens : LoopSend(len)
    \/ LoopNote
    \/ LoopRecv
    \/ LoopDone
    \/ LoopStep
    \/ DevLoopback

LoopSpec == Init /\ [][LoopNext]_vars

Next ==
    \/ rtl8125_init
    \/ rtl8125_send_packet
    \/ rtl8125_recv_packet
    \/ DevTxDone
    \/ DevRxDeliver
    \/ CacheWriteBack

Spec == Init /\ [][Next]_vars

\* ------------------------------------------------------ dw_pcie_setup_atu
LimitAddr_m(cpu_addr, size) == Add64(cpu_addr, size)

\* uint64_t limit_addr = cpu_addr + size - 1
LimitAddr(cpu_addr, size) == Dec64(Add64(cpu_addr, size))

AtuProgram_m(f) ==
    << <<ATU_LOWER_BASE, Lo32(f.cpu_addr)>>,
       <<ATU_UPPER_BASE, Hi32(f.cpu_addr)>>,
       <<ATU_LOWER_LIMIT, Lo32(LimitAddr(f.cpu_addr, f.size))>>,
       <<ATU_UPPER_LIMIT, Hi32(LimitAddr(f.cpu_addr, f.size))>>,
       <<ATU_LOWER_TARGET, Lo32(f.pci_addr)>>,
       <<ATU_UPPER_TARGET, Hi32(f.pci_addr)>>,
       <<ATU_REGION_CTRL2, AtuEnable>>,
       <<ATU_REGION_CTRL1, f.type>> >>

\* the eight register writes of a call, in program order: <<offset, value>>
AtuProgram(f) ==
    << <<ATU_LOWER_BASE, Lo32(f.cpu_addr)>>,
       <<ATU_UPPER_BASE, Hi32(f.cpu_addr)>>,
       <<ATU_LOWER_LIMIT, Lo32(LimitAddr(f.cpu_addr, f.size))>>,
       <<ATU_UPPER_LIMIT, Hi32(LimitAddr(f.cpu_addr, f.size))>>,
       <<ATU_LOWER_TARGET, Lo32(f.pci_addr)>>,
       <<ATU_UPPER_TARGET, Hi32(f.pci_addr)>>,
       <<ATU_REGION_CTRL1, f.type>>,
       <<ATU_REGION_CTRL2, AtuEnable>> >>

\* entry of dw_pcie_setup_atu; ret_to is where the caller goes on
EnterAtu(region, type, cpu_addr, pci_addr, size, ret_to) ==
    /\ frame' = [region |-> region, type |-> type, cpu_addr |-> cpu_addr,
                 pci_addr |-> pci_addr, size |-> size, step |-> 1,
                 retries |-> ATU_RETRIES, ret |-> 0, ret_to |-> ret_to]
    /\ log' = <<>>
    /\ polls' = 0
    /\ pc' = "atu_write"

\* a call of dw_pcie_setup_atu made from outside the accessor
AtuCall(c) ==
    /\ pc = "idle"
    /\ call' = "atu"
    /\ EnterAtu(c[1], c[2], c[3], c[4], c[5], "idle")
    /\ UNCHANGED <<ret, atu, atu_on, cfg_space, acc, ringState, drv>>

\* *reg = value; DSB_SY();  A write of control2 starts the hardware's
\* enabling of the region, which a read may show at once or later
AtuWrite ==
    /\ pc = "atu_write"
    /\ LET w == AtuProgram(frame)[frame.step]
       IN  /\ atu' = [atu EXCEPT ![AtuReg(frame.region, w[1])] = w[2]]
           /\ log' = Append2(log, <<"write", w[1], w[2]>>, <<"dsb">>)
           /\ IF w[1] = ATU_REGION_CTRL2
              THEN \E b \in BOOLEAN : atu_on' = [atu_on EXCEPT ![frame.region] = b]
              ELSE atu_on' = atu_on
    /\ frame' = [frame EXCEPT !.step = @ + 1]
    /\ pc' = IF frame.step = Len(AtuProgram(frame)) THEN "atu_poll" ELSE "atu_write"
    /\ UNCHANGED <<call, ret, polls, cfg_space, acc, ringState, drv>>

\* what a read of a region's control2 returns
ReadCtrl2(region) ==
    LET w == atu[AtuReg(region, ATU_REGION_CTRL2)]
    IN  IF atu_on[region] THEN w ELSE <<w[1] % (HALF \div 2), w[2]>>

\* return of dw_pcie_setup_atu to its caller, f being its frame at the return
AtuReturn(f, v) ==
    /\ frame' = [f EXCEPT !.ret = v]
    /\ pc' = f.ret_to
    /\ ret' = IF f.ret_to = "idle" THEN v ELSE ret

AtuPoll_m ==
    /\ pc = "atu_poll"
    /\ IF frame.retries = 1
       THEN /\ AtuReturn(frame, -1)
            /\ UNCHANGED <<polls, log>>
       ELSE LET f == [frame EXCEPT !.retries = @ - 1]
            IN  /\ polls' = polls + 1
                /\ log' = Append(Append2(log, <<"dsb">>, <<"read", ATU_REGION_CTRL2>>),
                                 <<"dsb">>)
                /\ IF HasEnable(ReadCtrl2(frame.region))
                   THEN AtuReturn(f, 0)
                   ELSE /\ frame' = f
                        /\ UNCHANGED <<pc, ret>>
    /\ UNCHANGED <<call, atu, atu_on, cfg_space, acc, ringState, drv>>

\* one turn of while (retries--) { DSB; val = *reg_ctrl2; DSB;
\* if (val & PCIE_ATU_ENABLE) return 0; udelay(1000); }, or the end of the
\* loop and return -1 (retries, wrapped by the last test, is not read again)
AtuPoll ==
    /\ pc = "atu_poll"
    /\ IF frame.retries = 0
       THEN /\ AtuReturn(frame, -1)
            /\ UNCHANGED <<polls, log>>
       ELSE LET f == [frame EXCEPT !.retries = @ - 1]
            IN  /\ polls' = polls + 1
                /\ log' = Append(Append2(log, <<"dsb">>, <<"read", ATU_REGION_CTRL2>>),
                                 <<"dsb">>)
                /\ IF HasEnable(ReadCtrl2(frame.region))
                   THEN AtuReturn(f, 0)
                   ELSE /\ frame' = f
                        /\ UNCHANGED <<pc, ret>>
    /\ UNCHANGED <<call, atu, atu_on, cfg_space, acc, ringState, drv>>

\* the hardware: a region whose enable bit was written becomes enabled
HwEnable ==
    /\ \E r \in AtuRegions :
          /\ HasEnable(atu[AtuReg(r, ATU_REGION_CTRL2)])
          /\ ~atu_on[r]
          /\ atu_on' = [atu_on EXCEPT ![r] = TRUE]
    /\ UNCHANGED <<pc, call, ret, polls, log, atu, cfg_space, frame, acc, ringState, drv>>

\* ----------------------------- pcie_config_read32, pcie_config_write32
\* where the access lands that is not a configuration register kept here
Elsewhere == -1

\* source base, limit and target of a region as its registers hold them
RegionBase(r) == Join(atu[AtuReg(r, ATU_UPPER_BASE)], atu[AtuReg(r, ATU_LOWER_BASE)])

RegionLimit(r) == Join(atu[AtuReg(r, ATU_UPPER_LIMIT)], atu[AtuReg(r, ATU_LOWER_LIMIT)])

RegionTarget(r) == Join(atu[AtuReg(r, ATU_UPPER_TARGET)], atu[AtuReg(r, ATU_LOWER_TARGET)])

\* the enabled regions whose window holds the address
Matching(addr) ==
    {r \in AtuRegions :
        /\ atu_on[r]
        /\ HasEnable(atu[AtuReg(r, ATU_REGION_CTRL2)])
        /\ Le64(RegionBase(r), addr)
        /\ Le64(addr, RegionLimit(r))}

\* what region r turns an access at addr into: through a configuration
\* window, the configuration register at target + (addr - base)
TargetOf(r, addr) ==
    LET b == Add64(RegionTarget(r), Sub64(addr, RegionBase(r)))
    IN  IF /\ atu[AtuReg(r, ATU_REGION_CTRL1)] = TypeCfg0
           /\ Hi32(b) = Zero32
           /\ b[3] = 0
           /\ b[4] \in CfgRegs
        THEN b[4]
        ELSE Elsewhere

Targets(addr) ==
    IF Matching(addr) = {} THEN {Elsewhere}
    ELSE {TargetOf(r, addr) : r \in Matching(addr)}

\* read32(cfg_base + offset): the register's value, or whatever is elsewhere
RawRead(addr) ==
    UNION {IF t = Elsewhere THEN CfgValues ELSE {cfg_space[t]} : t \in Targets(addr)}

\* what the device keeps of a value written to the register at offset t:
\* of BAR 2, the writable address bits, the low bits being hardwired
Stored(t, v) ==
    IF t = PCIE_CFG_BAR0 + 4 * TEST_BAR_NUM
    THEN LET a == And32(v, dev_bar.mask) IN <<a[1], a[2] + dev_bar.low>>
    ELSE v

RawWrite_m(addr, v) == {cfg_space}

\* write32(value, cfg_base + offset): the configuration space afterwards
RawWrite(addr, v) ==
    {IF t = Elsewhere THEN cfg_space ELSE [cfg_space EXCEPT ![t] = Stored(t, v)] :
        t \in Targets(addr)}

\* cfg_base + offset
AccAddr(a) == Add64(a.cfg_base, Wide(a.offset))

\* entry of either accessor, up to its call of dw_pcie_setup_atu for region 1
\* with the configuration window
CfgEnter(op, cfg_base, bar_phys, offset, value, restore) ==
    /\ pc = "idle"
    /\ call' = op
    /\ acc' = [op |-> op, cfg_base |-> cfg_base, bar_phys |-> bar_phys,
               offset |-> offset, value |-> value, restore |-> restore,
               val |-> NoValue, raw |-> 0, maps |-> 1]
    /\ EnterAtu(PCIE_ATU_REGION_INDEX1, TypeCfg0, CfgWindowCpu, Zero64, CfgWindowSize,
                "cfg_mapped")
    /\ UNCHANGED <<ret, atu, atu_on, cfg_space, ringState>>

\* an accessor called by a caller of which the model keeps no frame
CfgCall(op, cfg_base, bar_phys, offset, value, restore) ==
    /\ CfgEnter(op, cfg_base, bar_phys, offset, value, restore)
    /\ UNCHANGED drv

\* return of an accessor: the value read, or nothing from the void write
CfgReturn(a, v) ==
    /\ acc' = a
    /\ ret' = IF a.op = "cfg_read" THEN v ELSE NoValue
    /\ pc' = "idle"
    /\ UNCHANGED <<frame, polls, log>>

MapFailed_m(f) == FALSE

\* if (ret != 0)
MapFailed(f) == f.ret # 0

WantRestore_m(a) == a.restore

\* if (restore_memory && bar_phys != 0)
WantRestore(a) == a.restore /\ a.bar_phys # Zero64

\* if (ret != 0) return [0xFFFFFFFF]; the raw access;
\* if (restore_memory && bar_phys != 0) ret = dw_pcie_setup_atu(...)
CfgAccess ==
    /\ pc = "cfg_mapped"
    /\ IF MapFailed(frame)
       THEN /\ CfgReturn(acc, AllOnes32)
            /\ UNCHANGED cfg_space
       ELSE \E v \in (IF acc.op = "cfg_read" THEN RawRead(AccAddr(acc)) ELSE {NoValue}),
               c \in (IF acc.op = "cfg_read" THEN {cfg_space}
                      ELSE RawWrite(AccAddr(acc), acc.value)) :
               /\ cfg_space' = c
               /\ IF WantRestore(acc)
                  THEN /\ acc' = [acc EXCEPT !.val = v, !.raw = 1, !.maps = 2]
                       /\ EnterAtu(PCIE_ATU_REGION_INDEX1, TypeMem, MemWindowCpu,
                                   acc.bar_phys, MemWindowSize, "cfg_restored")
                       /\ UNCHANGED ret
                  ELSE CfgReturn([acc EXCEPT !.val = v, !.raw = 1], v)
    /\ UNCHANGED <<call, atu, atu_on, ringState>>

\* the same, in a caller of which the access changes no local
CfgMapped ==
    /\ CfgAccess
    /\ UNCHANGED drv

\* if (ret != 0) logger_error(...); return [val]
CfgRestored ==
    /\ pc = "cfg_restored"
    /\ CfgReturn(acc, acc.val)
    /\ UNCHANGED <<call, atu, atu_on, cfg_space, ringState, drv>>

\* a harness either makes calls at will or tests a round trip: it notes a
\* write made with restore_memory = false and, that write having been
\* performed, reads the same offset with restore_memory = false

\* the harness notes the write just entered as the one under test
CfgNote ==
    /\ pc = "atu_write"
    /\ call = "cfg_write"
    /\ frame.step = 1
    /\ acc.maps = 1
    /\ ~acc.restore
    /\ sent = NoPayload
    /\ sent' = <<acc.offset, acc.value>>
    /\ UNCHANGED <<inited, tx_idx, rx_idx, ringVars, bufVars, devVars, hwVars, pc,
                   argVars, pad_len, polls, st, ret, outVars, log, timeout, atuVars>>

\* the harness is done with the round trip when the read has returned, or
\* when the write was skipped
CfgDone ==
    /\ sent # NoPayload
    /\ Returned("cfg_read") \/ (Returned("cfg_write") /\ acc.raw = 0)
    /\ sent' = NoPayload
    /\ UNCHANGED <<inited, tx_idx, rx_idx, ringVars, bufVars, devVars, hwVars, pc,
                   argVars, pad_len, polls, st, ret, outVars, log, timeout, atuVars>>

pcie_config_read32 ==
    \/ /\ sent = NoPayload
       /\ \E bar \in CfgBars, off \in CfgOffsets, restore \in BOOLEAN :
             CfgCall("cfg_read", CfgWindowCpu, bar, <<0, off>>, Zero32, restore)
    \/ /\ sent # NoPayload
       /\ Returned("cfg_write")
       /\ acc.raw = 1
       /\ \E bar \in CfgBars :
             CfgCall("cfg_read", CfgWindowCpu, bar, sent[1], Zero32, FALSE)

pcie_config_write32 ==
    /\ sent = NoPayload
    /\ \E bar \in CfgBars, off \in CfgOffsets, v \in CfgValues, restore \in BOOLEAN :
          CfgCall("cfg_write", CfgWindowCpu, bar, <<0, off>>, v, restore)

dw_pcie_setup_atu ==
    \/ sent = NoPayload /\ \E c \in AtuCalls : AtuCall(c)
    \/ AtuWrite
    \/ AtuPoll

AtuNext ==
    \/ dw_pcie_setup_atu
    \/ pcie_config_read32
    \/ pcie_config_write32
    \/ CfgMapped
    \/ CfgRestored
    \/ CfgNote
    \/ CfgDone
    \/ HwEnable

\* the ring driver stays as it starts; which device it faces is of no account
AtuInit == Init /\ dev_keeps

AtuSpec == AtuInit /\ [][AtuNext]_vars

\* ------------- pcie_scan_bus, pcie_get_bar_info, pcie_enable_device
\* The callers of the accessors.  A step of a caller runs from the return of
\* one accessor call to the entry of the next, or to the caller's return;
\* drv.step = 0 when no caller is running.  drv.seq follows test_dw_pcie_atu:
\* 1 after its pcie_scan_bus returned 0, 2 after its pcie_get_bar_info,
\* 3 after its pcie_enable_device returned 0, 4 after its first read of
\* the BAR window, and -1 once the calls made are not those of the test.

\* the devices on the bus, as <<vendor and device ID, BAR 2, BAR 3, kind of
\* BAR 2>>: an RTL8125 with a 64-bit memory BAR of 64 KB at 0x9c0100000, one
\* with an unassigned 32-bit memory BAR of 64 KB, one with an I/O BAR of 8
\* bytes at 0x1008, an empty slot (all ones), and a device with a vendor ID
\* of 0 that implements no BAR 2
Devices ==
    { << <<33061, 4332>>, <<49168, 4>>, <<0, 9>>, [mask |-> <<65535, 0>>, low |-> 4]>>,
      << <<33061, 4332>>, <<0, 0>>, <<0, 0>>, [mask |-> <<65535, 0>>, low |-> 0]>>,
      << <<33061, 4332>>, <<0, 4105>>, <<0, 0>>, [mask |-> <<65535, 65528>>, low |-> 1]>>,
      <<AllOnes32, AllOnes32, AllOnes32, PlainBar>>,
      << <<33061, 0>>, <<0, 0>>, <<0, 0>>, [mask |-> <<0, 0>>, low |-> 0]>> }

\* offset of the BAR the test asks about: 0x10 + (bar_num * 4)
BarOffset == PCIE_CFG_BAR0 + 4 * TEST_BAR_NUM

EnumInit ==
    /\ \E d \in Devices :
          InitWith([o \in CfgRegs |->
                       IF o = PCIE_CFG_VENDOR_ID THEN d[1]
                       ELSE IF o = BarOffset THEN d[2]
                       ELSE IF o = BarOffset + 4 THEN d[3]
                       ELSE IF d[1] = AllOnes32 THEN AllOnes32
                       ELSE IF o = PCIE_CFG_CLASS_REV THEN <<512, 21>>
                       ELSE IF o = PCIE_CFG_COMMAND THEN <<16, 0>>
                       ELSE Zero32],
                   d[4])
    /\ dev_keeps

\* entry of a caller: its locals are fresh; the results of the last
\* pcie_get_bar_info stay with the one who called it
DrvEnter(name) ==
    [NoDrv EXCEPT !.fn = name, !.step = 1, !.seq = drv.seq, !.addr = drv.addr,
                  !.size = drv.size, !.pre = cfg_space[BarOffset],
                  !.prev = IF drv.fn = "bar" /\ drv.ret = 0
                              /\ \A i \in 1..Len(drv.accs) : drv.accs[i][3] = 1
                           THEN <<drv.addr, drv.size>> ELSE NoValue]

\* the frame with the accessor call that has just returned noted
DrvNoted == [drv EXCEPT !.accs = Append(@, <<acc.op, acc.offset[2], acc.raw>>)]

\* return of a caller
DrvReturn(d, v, at, to) ==
    /\ drv' = [d EXCEPT !.step = 0, !.ret = v,
                        !.seq = IF v = 0 /\ drv.seq = at THEN to ELSE -1]
    /\ UNCHANGED <<ringState, pc, call, polls, ret, log, atuVars>>

NoDevice_m(v) == v = HALF - 1

\* if (*vendor_id == 0xFFFF || *vendor_id == 0x0000)
NoDevice(v) == v = HALF - 1 \/ v = 0

pcie_scan_bus ==
    /\ pc = "idle"
    /\ \/ /\ drv.step = 0
          /\ drv' = DrvEnter("scan")
          /\ CfgEnter("cfg_read", CfgWindowCpu, Zero64, <<0, PCIE_CFG_VENDOR_ID>>, Zero32,
                      FALSE)
       \/ /\ drv.fn = "scan"
          /\ drv.step = 1
          /\ LET d == [DrvNoted EXCEPT !.vendor = ret[2], !.device = ret[1]]
             IN  IF NoDevice(d.vendor)
                 THEN DrvReturn(d, -1, 0, 1)
                 ELSE /\ drv' = [d EXCEPT !.step = 2]
                      /\ CfgEnter("cfg_read", CfgWindowCpu, Zero64,
                                  <<0, PCIE_CFG_CLASS_REV>>, Zero32, FALSE)
       \/ /\ drv.fn = "scan"
          /\ drv.step = 2
          /\ DrvReturn([DrvNoted EXCEPT !.class = ret[1] * 256 + ret[2] \div 256], 0, 0, 1)

BarMask_m(v) == <<HALF - 1, HALF - 16>>

\* bar_val & 0x1 ? 0xFFFFFFFC : 0xFFFFFFF0
BarMask(v) == IF v[2] % 2 = 1 THEN <<HALF - 1, HALF - 4>> ELSE <<HALF - 1, HALF - 16>>

BarRestore_m(d) == d.val

\* pcie_config_write32(dbi_base, cfg_base, 0, bar_offset, bar_orig, false)
BarRestore(d) == d.orig

pcie_get_bar_info ==
    /\ pc = "idle"
    /\ \/ /\ drv.step = 0
          /\ drv' = DrvEnter("bar")
          /\ CfgEnter("cfg_read", CfgWindowCpu, Zero64, <<0, BarOffset>>, Zero32, FALSE)
       \/ /\ drv.fn = "bar"
          /\ drv.step = 1
          /\ drv' = [DrvNoted EXCEPT !.orig = ret, !.step = 2]
          /\ CfgEnter("cfg_write", CfgWindowCpu, Zero64, <<0, BarOffset>>, AllOnes32, FALSE)
       \/ /\ drv.fn = "bar"
          /\ drv.step = 2
          /\ drv' = [DrvNoted EXCEPT !.step = 3]
          /\ CfgEnter("cfg_read", CfgWindowCpu, Zero64, <<0, BarOffset>>, Zero32, FALSE)
       \/ /\ drv.fn = "bar"
          /\ drv.step = 3
          /\ drv' = [DrvNoted EXCEPT !.val = ret, !.step = 4]
          /\ CfgEnter("cfg_write", CfgWindowCpu, Zero64, <<0, BarOffset>>,
                      BarRestore(drv'), FALSE)
       \/ /\ drv.fn = "bar"
          /\ drv.step = 4
          /\ LET d == [DrvNoted EXCEPT
                          !.size = Wide(Neg32(And32(drv.val, BarMask(drv.val)))),
                          !.addr = Wide(And32(drv.orig, BarMask(drv.val)))]
             IN  IF drv.val[2] % 2 = 0 /\ BitAnd(drv.orig[2], 6) = 4
                 THEN /\ drv' = [d EXCEPT !.step = 5]
                      /\ CfgEnter("cfg_read", CfgWindowCpu, Zero64, <<0, BarOffset + 4>>,
                                  Zero32, FALSE)
                 ELSE DrvReturn(d, 0, 1, 2)
       \/ /\ drv.fn = "bar"
          /\ drv.step = 5
          /\ DrvReturn([DrvNoted EXCEPT !.addr = Join(ret, Lo32(drv.addr))], 0, 1, 2)

pcie_enable_device ==
    /\ pc = "idle"
    /\ \/ /\ drv.step = 0
          /\ drv.addr # NoValue
          /\ drv' = [DrvEnter("enable") EXCEPT !.bar_phys = drv.addr]
          /\ CfgEnter("cfg_read", CfgWindowCpu, drv.addr, <<0, PCIE_CFG_COMMAND>>, Zero32,
                      FALSE)
       \/ /\ drv.fn = "enable"
          /\ drv.step = 1
          /\ LET on == PCIE_CMD_MEM_ENABLE + PCIE_CMD_BUS_MASTER + PCIE_CMD_IO_ENABLE
                 set == ret[2] + on - BitAnd(ret[2], on)
                 cmd == <<ret[1], set - BitAnd(set, PCIE_CMD_INT_DISABLE)>>
             IN  /\ drv' = [DrvNoted EXCEPT !.cmd = cmd, !.step = 2]
                 /\ CfgEnter("cfg_write", CfgWindowCpu, drv.bar_phys,
                             <<0, PCIE_CFG_COMMAND>>, cmd, FALSE)
       \/ /\ drv.fn = "enable"
          /\ drv.step = 2
          /\ drv' = [DrvNoted EXCEPT !.step = 3]
          /\ CfgEnter("cfg_read", CfgWindowCpu, drv.bar_phys, <<0, PCIE_CFG_COMMAND>>,
                      Zero32, TRUE)
       \/ /\ drv.fn = "enable"
          /\ drv.step = 3
          /\ DrvReturn([DrvNoted EXCEPT !.cmd = ret],
                       IF BitAnd(ret[2], PCIE_CMD_MEM_ENABLE) = 0 THEN -1 ELSE 0, 2, 3)

\* region 1 is enabled and turns an access at addr into one of the given
\* type at the given PCIe address
Region1Serves(addr, type, target) ==
    /\ PCIE_ATU_REGION_INDEX1 \in Matching(addr)
    /\ atu[AtuReg(PCIE_ATU_REGION_INDEX1, ATU_REGION_CTRL1)] = type
    /\ Add64(RegionTarget(PCIE_ATU_REGION_INDEX1),
             Sub64(addr, RegionBase(PCIE_ATU_REGION_INDEX1))) = target

\* uint32_t test_val = read32((void *) rtl_mmio_virt), and the register
\* accesses of rtl8125_init after it, all at the BAR window; the history
\* notes whether region 1, read back as enabled by the last
\* dw_pcie_setup_atu, carried the read to the BAR
BarRead ==
    /\ pc = "idle"
    /\ drv.step = 0
    /\ drv.seq = 3
    /\ DrvReturn([DrvEnter("mem") EXCEPT
                     !.accs = <<<<"mem_read", 0,
                                  IF /\ frame.region = PCIE_ATU_REGION_INDEX1
                                     /\ frame.ret = 0
                                     /\ Region1Serves(MemWindowCpu, TypeMem, drv.addr)
                                  THEN 1 ELSE 0>>>>],
                 0, 3, 4)

EnumNext ==
    \/ pcie_scan_bus
    \/ pcie_get_bar_info
    \/ pcie_enable_device
    \/ BarRead
    \/ AtuWrite
    \/ AtuPoll
    \/ CfgMapped
    \/ CfgRestored
    \/ HwEnable

EnumSpec == EnumInit /\ [][EnumNext]_vars

\* ------------------------------------------ two execution contexts
\* The accessors keep their state in locals and in region 1; a second
\* context is a second set of locals over the same region 1.  One context
\* runs at a time: drv.other holds what the context not running will resume
\* with.  The window is first brought up by one context alone, with a read
\* that restores the memory window (as pcie_enable_device's read-back does).
\* Then either each context makes one accessor call, the second one with
\* restore_memory set, or (drv.mem) the first makes an accessor call with
\* restore_memory set and the second reads the BAR window.
\* The code takes no lock: drv.locking is the discipline of callers that
\* hold one around each whole call, so that a context is preempted in favour
\* of another user of region 1 only between calls.
LockFree_m == TRUE

LockFree == drv.locking => pc = "idle"

\* the one context gives way to the other
Switch ==
    /\ drv.phase = "run"
    /\ LockFree
    /\ pc' = drv.other.pc
    /\ call' = drv.other.call
    /\ polls' = drv.other.polls
    /\ ret' = drv.other.ret
    /\ log' = drv.other.log
    /\ frame' = drv.other.frame
    /\ acc' = drv.other.acc
    /\ drv' = [drv EXCEPT !.who = 3 - @,
                          !.other = [pc |-> pc, call |-> call, polls |-> polls, ret |-> ret,
                                     log |-> log, frame |-> frame, acc |-> acc]]
    /\ UNCHANGED <<atu, atu_on, cfg_space, ringState>>

\* the context running calls pcie_config_read32 or pcie_config_write32
ConcCall ==
    /\ drv.phase \in {"single", "run"}
    /\ ~drv.called[drv.who]
    /\ drv.mem => drv.who = 1
    /\ \E op \in (IF drv.phase = "single" THEN {"cfg_read"} ELSE {"cfg_read", "cfg_write"}),
          b \in (IF drv.phase = "single" THEN CfgBars \ {Zero64} ELSE {drv.bar_phys}) :
          /\ CfgEnter(op, CfgWindowCpu, b, <<0, PCIE_CFG_COMMAND>>, AllOnes32,
                      drv.phase = "single" \/ drv.mem \/ drv.who = 2)
          /\ drv' = [drv EXCEPT !.called[drv.who] = TRUE, !.bar_phys = b]

\* the call that brings the window up has returned with region 1 serving
\* the BAR: from here on there are two contexts, under one discipline
ConcStart ==
    /\ pc = "idle"
    /\ drv.phase = "single"
    /\ drv.called[1]
    /\ frame.ret = 0
    /\ Region1Serves(MemWindowCpu, TypeMem, drv.bar_phys)
    /\ \E l \in BOOLEAN, s \in BOOLEAN :
          drv' = [drv EXCEPT !.phase = "run", !.called = <<FALSE, FALSE>>,
                             !.locking = l, !.mem = s,
                             !.other = [pc |-> "idle", call |-> "init", polls |-> 0,
                                        ret |-> 0, log |-> <<>>, frame |-> NoFrame,
                                        acc |-> NoAcc]]
    /\ call' = "init"
    /\ polls' = 0
    /\ ret' = 0
    /\ log' = <<>>
    /\ frame' = NoFrame
    /\ acc' = NoAcc
    /\ UNCHANGED <<ringState, pc, atu, atu_on, cfg_space>>

\* the accessor's raw access, noted as stray if region 1 does not carry it
\* to the register it is for
ConcMapped ==
    /\ CfgAccess
    /\ drv' = [drv EXCEPT !.stray = @ \/ (/\ acc'.raw = 1
                                           /\ ~Region1Serves(AccAddr(acc), TypeCfg0,
                                                             Wide(acc.offset)))]

\* read32 at the BAR window by the context running, noted as stray if
\* region 1 does not carry it to the BAR
BarAccess ==
    /\ pc = "idle"
    /\ drv.phase = "run"
    /\ drv.mem
    /\ drv.who = 2
    /\ drv' = [drv EXCEPT !.stray = @ \/ ~Region1Serves(MemWindowCpu, TypeMem,
                                                          drv.bar_phys)]
    /\ UNCHANGED <<ringState, pc, call, polls, ret, log, atuVars>>

ConcNext ==
    \/ ConcCall
    \/ ConcStart
    \/ Switch
    \/ BarAccess
    \/ ConcMapped
    \/ CfgRestored
    \/ AtuWrite
    \/ AtuPoll
    \/ HwEnable

ConcSpec == AtuInit /\ [][ConcNext]_vars

\* ------------------------------------------- rtl8125_init, step by step
\* What rtl8125_init does once the reset bit has cleared, in program order,
\* as <<operation, object, value>>: register writes by the register's name,
\* stores to descriptor i of a ring, and cleans of a whole ring.
InitProgram_m ==
    <<<<"write8", "Cfg9346", 192>>, <<"zero", "tx", 0>>, <<"zero", "rx", 0>>>>
    \o [i \in 1..NUM_TX_DESC |-> <<"desc", "tx", i - 1>>]
    \o <<<<"eor", "tx", NUM_TX_DESC - 1>>>>
    \o [i \in 1..NUM_RX_DESC |-> <<"desc", "rx", i - 1>>]
    \o <<<<"eor", "rx", NUM_RX_DESC - 1>>,
         <<"write32", "TxDescStartAddr", 1344274432>>,
         <<"write32", "TxDescStartAddrH", 0>>,
         <<"write32", "RxDescStartAddr", 1344278528>>,
         <<"write32", "RxDescStartAddrH", 0>>,
         <<"clean", "tx", NUM_TX_DESC>>,
         <<"clean", "rx", NUM_RX_DESC>>,
         <<"write32", "TxConfig", 50333184>>,
         <<"write32", "RxConfig", 58894>>,
         <<"write16", "MaxRxPacketSize", RX_BUF_SIZE>>,
         <<"write8", "ChipCmd", 12>>,
         <<"write8", "Cfg9346", 0>>>>

InitProgram ==
    <<<<"write8", "Cfg9346", 192>>, <<"zero", "tx", 0>>, <<"zero", "rx", 0>>>>
    \o [i \in 1..NUM_TX_DESC |-> <<"desc", "tx", i - 1>>]
    \o <<<<"eor", "tx", NUM_TX_DESC - 1>>>>
    \o [i \in 1..NUM_RX_DESC |-> <<"desc", "rx", i - 1>>]
    \o <<<<"eor", "rx", NUM_RX_DESC - 1>>,
         <<"clean", "tx", NUM_TX_DESC>>,
         <<"clean", "rx", NUM_RX_DESC>>,
         <<"write32", "TxDescStartAddr", 1344274432>>,
         <<"write32", "TxDescStartAddrH", 0>>,
         <<"write32", "RxDescStartAddr", 1344278528>>,
         <<"write32", "RxDescStartAddrH", 0>>,
         <<"write32", "TxConfig", 50333184>>,
         <<"write32", "RxConfig", 58894>>,
         <<"write16", "MaxRxPacketSize", RX_BUF_SIZE>>,
         <<"write8", "ChipCmd", 12>>,
         <<"write8", "Cfg9346", 0>>>>

\* rtl8125_init taken one operation at a time: the reset write, which puts
\* the device back at descriptor 0 of both rings; the reset poll, which the
\* device ends at some iteration i or not at all; then the
\* operations of InitProgram, the log growing by each; then the return.
\* Stores go to the cache, cleans bring memory up to date.
InitStep ==
    \/ /\ pc = "idle"
       /\ Enter("init", 0, 0, <<0, 0>>)
       /\ pc' = "init_reset"
       /\ UNCHANGED <<offRing, hwVars, inited, tx_idx, rx_idx, ringVars, bufVars, devVars,
                      ret>>
    \/ /\ pc = "init_reset"
       /\ log' = <<<<"write8", "ChipCmd", 16>>>>
       /\ dev_tx' = 0
       /\ dev_rx' = 0
       /\ \E i \in {0, 1, RESET_POLL_BUDGET - 1, RESET_POLL_BUDGET} :
             /\ polls' = i
             /\ IF i >= RESET_POLL_BUDGET
                THEN ret' = -1 /\ pc' = "idle"
                ELSE ret' = ret /\ pc' = "init_run"
       /\ UNCHANGED <<offRing, hwVars, inited, tx_idx, rx_idx, ringVars, bufVars, argVars,
                      pad_len, st, outVars>>
    \/ /\ pc = "init_run"
       /\ Len(log) <= Len(InitProgram)
       /\ LET op == InitProgram[Len(log)]
              i  == op[3]
              tx == op[2] = "tx"
              d  == IF op[1] = "zero" THEN ZeroDesc
                    ELSE IF op[1] = "eor"
                    THEN IF tx THEN [tx_cache[i].d EXCEPT !.status.flags = @ \cup {DESC_EOR}]
                         ELSE [rx_cache[i].d EXCEPT !.status.flags = @ \cup {DESC_EOR}]
                    ELSE IF tx THEN Desc(ZeroWord, TxBufAddr(i))
                    ELSE Desc(Word({DESC_OWN}, RX_BUF_SIZE), RxBufAddr(i))
          IN  /\ log' = Append(log, op)
              /\ IF op[1] \in {"zero", "desc", "eor"}
                 THEN /\ tx_cache' = IF tx THEN [tx_cache EXCEPT ![i] = StoreLine(d)]
                                     ELSE tx_cache
                      /\ rx_cache' = IF tx THEN rx_cache
                                     ELSE [rx_cache EXCEPT ![i] = StoreLine(d)]
                      /\ UNCHANGED <<tx_mem, rx_mem>>
                 ELSE IF op[1] = "clean"
                 THEN /\ tx_mem' = IF tx THEN [k \in 0..NUM_TX_DESC - 1 |->
                                                  MemAfterClean(tx_cache[k], tx_mem[k])]
                                   ELSE tx_mem
                      /\ tx_cache' = IF tx THEN [k \in 0..NUM_TX_DESC - 1 |->
                                                    LineAfterClean(tx_cache[k])]
                                     ELSE tx_cache
                      /\ rx_mem' = IF tx THEN rx_mem
                                   ELSE [k \in 0..NUM_RX_DESC - 1 |->
                                            MemAfterClean(rx_cache[k], rx_mem[k])]
                      /\ rx_cache' = IF tx THEN rx_cache
                                     ELSE [k \in 0..NUM_RX_DESC - 1 |->
                                              LineAfterClean(rx_cache[k])]
                 ELSE UNCHANGED ringVars
              /\ inited' = (inited \/ op = <<"desc", "rx", NUM_RX_DESC - 1>>)
       /\ UNCHANGED <<offRing, hwVars, tx_idx, rx_idx, bufVars, devVars, pc, argVars,
                      pad_len, polls, st, ret, outVars>>
    \/ /\ pc = "init_run"
       /\ Len(log) > Len(InitProgram)
       /\ ret' = 0
       /\ pc' = "idle"
       /\ UNCHANGED <<offRing, hwVars, inited, tx_idx, rx_idx, ringVars, bufVars, devVars,
                      argVars, pad_len, polls, st, outVars, log>>

InitSpec == Init /\ [][InitStep \/ CacheWriteBack]_vars

\* ------------------------------------------------------- the poll loops
\* The waits of rtl8125_init, rtl8125_send_packet and rtl8125_recv_packet
\* taken one iteration at a time, the device free at every poll to answer or
\* not; timeout is the budget left (for rtl8125_init, 1000 - i).
WaitBudget_m(name, tmo) == TX_POLL_BUDGET + 1

\* i < 1000;  uint32_t timeout = 10000;  uint32_t timeout = timeout_ms * 100
WaitBudget(name, tmo) ==
    IF name = "init" THEN RESET_POLL_BUDGET
    ELSE IF name = "send" THEN TX_POLL_BUDGET ELSE RxBudget(tmo)

\* entry of a call, up to its poll loop; the log and the frame of the call
\* before are gone
WaitCall ==
    /\ pc = "idle"
    /\ \E name \in {"init", "send", "recv"}, tmo \in RecvTimeouts :
          /\ name # "recv" => tmo = <<0, 0>>
          /\ call' = name
          /\ arg_tmo' = tmo
          /\ timeout' = WaitBudget(name, tmo)
    /\ polls' = 0
    /\ log' = <<>>
    /\ frame' = NoFrame
    /\ pc' = "wait"
    /\ UNCHANGED <<inited, tx_idx, rx_idx, ringVars, bufVars, devVars, hwVars, slot,
                   arg_len, pad_len, st, ret, outVars, sent, atu, atu_on, cfg_space, acc>>

\* one test of the loop condition and, if it holds, one turn of the loop:
\* for (i = 0; i < 1000; i++) { if (!(ChipCmd & CMD_RESET)) break; udelay },
\* while (timeout--) { invalidate; if (!(status & DESC_OWN)) break; udelay };
\* out of the loop, the rest of the call runs to its return
WaitTurn ==
    /\ pc = "wait"
    /\ IF timeout = 0
       THEN /\ ret' \in (IF call = "init" THEN {-1} ELSE {-1, 0})
            /\ pc' = "idle"
            /\ UNCHANGED <<polls, timeout>>
       ELSE /\ polls' = polls + 1
            /\ \/ /\ ret' \in (IF call = "recv" THEN {-1, 0} ELSE {0})
                  /\ pc' = "idle"
                  /\ timeout' = 0
               \/ /\ timeout' = timeout - 1
                  /\ UNCHANGED <<pc, ret>>
    /\ UNCHANGED <<inited, tx_idx, rx_idx, ringVars, bufVars, devVars, hwVars, call,
                   slot, arg_len, arg_tmo, pad_len, st, outVars, log, sent, atuVars>>

WaitNext ==
    \/ WaitCall
    \/ WaitTurn
    \/ dw_pcie_setup_atu
    \/ HwEnable

\* the thread of control goes on; nothing is supposed of the hardware
WaitFair == WF_vars(WaitTurn) /\ WF_vars(AtuWrite) /\ WF_vars(AtuPoll)

WaitSpec == AtuInit /\ [][WaitNext]_vars /\ WaitFair

\* ------------------------------------------- the lengths of the ring driver
\* One caller that, after rtl8125_init, either sends or receives, over the
\* range of payload lengths and of length fields; a frame arrives while the
\* receive waits for it.
\* len passed to rtl8125_send_packet: the ends of 0..2048 and both sides of 60
ProbeLens == {0, 1, ETH_ZLEN - 1, ETH_ZLEN, ETH_ZLEN + 1, TX_BUF_SIZE}
\* length fields the device writes: below and at 4, a common one, one byte
\* more than the caller's buffer holds, one more than the slot's, the largest
ProbeFields == {3, 4, 64, 1029, 2053, 16383}
\* uint8_t rx_buffer[1024]
RX_CALLER_BUF == 1024

ProbeNext ==
    \/ LoopInit
    \/ call \in {"init", "send"} /\ \E len \in ProbeLens : SendCall(len)
    \/ call \in {"init", "recv"} /\ RecvCall(<<0, 1>>)
    \/ TxCopy
    \/ TxCleanBuf
    \/ TxSetStatus
    \/ TxCleanDesc
    \/ TxKick
    \/ TxPoll
    \/ TxCheck
    \/ RxPoll
    \/ RxCheck
    \/ RxInvalBuf
    \/ RxCopy
    \/ RxRearm
    \/ RxRearmAddr
    \/ RxCleanDone
    \/ DevTxDone
    \/ /\ pc = "rx_poll"
       /\ dev_rx = rx_idx
       /\ Own(rx_mem[dev_rx].status)
       /\ \E f \in ProbeFields : DevRxFill(FALSE, f)
       /\ UNCHANGED <<offRing, inited, hwVars, tx_idx, rx_idx, tx_mem, tx_cache, rx_cache,
                      tx_buf, tx_buf_mem, dev_tx, pc, argVars, pad_len, polls, st, ret,
                      outVars, log>>
    \/ CacheWriteBack

ProbeSpec == AtuInit /\ [][ProbeNext]_vars

\* ================================================================= claims
FlagSlots(ring, bit) == {i \in DOMAIN ring : bit \in ring[i].status.flags}

\* C1: software never reuses a ring slot the device still owns: send writes
\* the transmit slot's buffer and status only while its ownership bit is
\* clear, and receive copies out and re-arms only after the bit read clear.
C1_NoReuseOfDeviceOwnedSlot ==
    /\ pc \in {"tx_copy", "tx_clean_buf", "tx_status"} => ~Own(tx_mem[tx_idx].status)
    /\ pc \in {"rx_inval_buf", "rx_copy", "rx_rearm_status"} =>
           ~Own(st) /\ ~Own(rx_mem[rx_idx].status)

\* the receive half of C1 taken alone
C1_RecvHalf ==
    pc \in {"rx_inval_buf", "rx_copy", "rx_rearm_status"} =>
        ~Own(st) /\ ~Own(rx_mem[rx_idx].status)

\* C2: between calls, each ring has exactly one descriptor with the
\* end-of-ring flag, and it is the last one.
C2_OneEndOfRingOnLast ==
    (inited /\ pc = "idle") =>
        /\ FlagSlots(tx_mem, DESC_EOR) = {NUM_TX_DESC - 1}
        /\ FlagSlots(rx_mem, DESC_EOR) = {NUM_RX_DESC - 1}

\* the receive ring's half of C2 taken alone
C2_RecvHalf ==
    (inited /\ pc = "idle") => FlagSlots(rx_mem, DESC_EOR) = {NUM_RX_DESC - 1}

RearmedDesc(i) ==
    Desc(Word(IF i = 3 THEN {31, 30} ELSE {31}, 2048), RX_BUF_BASE + i * 2048)

C3_State ==
    /\ pc = "rx_clean_desc" =>
           /\ rx_cache[slot].present
           /\ rx_cache[slot].d = RearmedDesc(slot)
    /\ (Returned("recv") /\ ret = 0) =>
           /\ rx_cache[slot] = [present |-> TRUE, dirty |-> FALSE, d |-> RearmedDesc(slot)]
           /\ Len(log) >= 3
           /\ SubSeq(log, Len(log) - 2, Len(log)) =
                  <<"rearm_status", "rearm_addr", "clean_desc">>
    /\ (Returned("recv") /\ ret = -1 /\ inited) =>
           /\ Own(st)
           /\ Own(CpuView(rx_cache[slot], rx_mem[slot]).status)
           /\ Positions(log, "rearm_status") = {}
           /\ Positions(log, "rearm_addr") = {}
           /\ Positions(log, "clean_desc") = {}

\* the line is dirty when the second re-arm store is done, the step that
\* cleans it puts the re-armed descriptor in memory, and the call returns
\* with the line clean
C3_Step ==
    /\ (pc = "rx_rearm_addr" /\ pc' = "rx_clean_desc") => rx_cache'[slot].dirty
    /\ (pc = "rx_clean_desc" /\ rx_cache[slot].dirty /\ ~rx_cache'[slot].dirty) =>
           rx_mem'[slot] = RearmedDesc(slot)
    /\ (pc = "rx_clean_desc" /\ pc' = "idle") => ~rx_cache'[slot].dirty

\* C3: a receive that obtained the slot leaves it re-armed when it returns:
\* ownership set, length 2048, end-of-ring iff it is the last slot, buffer
\* address rewritten, and the descriptor cleaned to memory after the writes;
\* a timed-out receive has read the slot as device-owned and not written it.
C3_RecvRearms == [](C3_State) /\ [][C3_Step]_vars

C3_Witness == Returned("recv") /\ ret = 0 /\ slot = 3 /\ RxError(st)

C4_Step ==
    /\ tx_idx' # tx_idx => (pc = "tx_check" /\ call = "send" /\ ret' = 0)
    /\ rx_idx' # rx_idx => (pc = "rx_clean_desc" /\ call = "recv" /\ ret' = 0)
    /\ (pc = "tx_check" /\ pc' = "idle" /\ ret' = 0) => tx_idx' = (tx_idx + 1) % 4
    /\ (pc = "tx_check" /\ pc' = "idle" /\ ret' = -1) => tx_idx' = tx_idx
    /\ (pc = "rx_clean_desc" /\ pc' = "idle") => rx_idx' = (rx_idx + 1) % 4
    /\ (pc' = "idle" /\ ret' = -1) => (tx_idx' = tx_idx /\ rx_idx' = rx_idx)

\* C4: tx_idx and rx_idx stay in 0..3; only a successful send changes
\* tx_idx and only a receive that obtained its slot changes rx_idx, each by
\* one modulo 4; a call that returns an error changes neither.
C4_IndexAdvance ==
    [](tx_idx \in 0..3 /\ rx_idx \in 0..3) /\ [][C4_Step]_vars

C4_Witness ==
    Returned("send") /\ ret = 0 /\ slot = 3 /\ tx_idx = 0 /\ rx_idx = 1

\* C5: a receive that times out has made at least timeout_ms x 100 polls
\* and left rx_idx, the slot, the caller's buffer and *len untouched.
C5_TimeoutNotEarly ==
    (Returned("recv") /\ ret = -1 /\ inited) =>
        /\ polls \div 100 >= U32Val(arg_tmo)
        /\ rx_idx = slot
        /\ buffer = NoBytes
        /\ len_out = NotWritten
        /\ \A i \in 1..Len(log) : log[i] \in {"inval_desc", "read_status"}

\* the part of C5 that does not depend on the number of polls
C5_TimeoutLeavesState ==
    (Returned("recv") /\ ret = -1 /\ inited) =>
        /\ rx_idx = slot
        /\ buffer = NoBytes
        /\ len_out = NotWritten
        /\ \A i \in 1..Len(log) : log[i] \in {"inval_desc", "read_status"}

\* C6: a send whose descriptor the device never hands back returns -1
\* after 10000 polls, with one write of the transmit-poll register and
\* tx_idx unchanged.
C6_TxTimeoutBounded ==
    /\ (Returned("send") /\ Len(log) > 0 /\ Own(tx_mem[slot].status)) => ret = -1
    /\ (Returned("send") /\ Len(log) > 0 /\ ret = -1) =>
           /\ polls = 10000
           /\ Count(log, "txpoll") = 1
           /\ tx_idx = slot

C6_Witness ==
    Returned("send") /\ ret = -1 /\ polls = 10000 /\ Own(tx_mem[slot].status)

C7_State ==
    (call = "send" /\ arg_len > 2048) =>
        /\ pc = "idle"
        /\ ret = -1
        /\ log = <<>>
        /\ tx_idx = slot

C7_Step ==
    (call' = "send" /\ arg_len' > 2048 /\ UNCHANGED devVars) =>
        UNCHANGED <<tx_buf, tx_buf_mem, tx_mem, tx_cache, tx_idx>>

\* C7: a send longer than 2048 bytes returns -1 at once: no transmit
\* buffer byte written, no descriptor changed, no cache maintenance, no
\* transmit-poll write, tx_idx unchanged.
C7_OversizeRejected == [](C7_State) /\ [][C7_Step]_vars

C7_Witness == Returned("send") /\ arg_len = 2049 /\ ret = -1 /\ inited

\* C8: a receive that obtained its slot with the error flag set returns a
\* failure to its caller.
C8_RxErrorReported ==
    (Returned("recv") /\ ~Own(st) /\ RxError(st) /\ Len(log) > 0) => ret # 0

HandOff == <<"copy", "clean_buf", "own_write", "clean_desc", "txpoll">>

\* C9: in a send the hand-off is copy and padding, one buffer clean, the
\* ownership write, one descriptor clean, one transmit-poll write, in that
\* order; after the transmit-poll write only invalidates and reads follow,
\* and polling starts only when the whole hand-off has been made.
C9_SendHandOffOrder ==
    call = "send" =>
        /\ \A i \in 1..Len(log) :
              IF i <= 5 THEN log[i] = HandOff[i]
              ELSE log[i] \in {"inval_desc", "read_status"}
        /\ pc \in {"tx_poll", "tx_check"} => Len(log) >= 5
        /\ Len(log) >= 2 =>
              tx_buf_mem[slot] =
                  [len |-> arg_len, pad |-> IF arg_len < 60 THEN 60 - arg_len ELSE 0]
        /\ (Len(log) >= 3 /\ Len(log) <= 5) =>
              CpuView(tx_cache[slot], tx_mem[slot]).status.len =
                  (IF arg_len < 60 THEN 60 ELSE arg_len)

C9_Witness == pc = "tx_poll" /\ Len(log) = 5 /\ arg_len < 60 /\ slot = 2

\* C10: every read of a descriptor status that decides ownership directly
\* follows an invalidate of that descriptor.
C10_ReadsFollowInvalidate ==
    call \in {"send", "recv"} =>
        \A i \in 1..Len(log) :
            log[i] = "read_status" => (i > 1 /\ log[i - 1] = "inval_desc")

\* C11: loopback.  Every payload the harness sends (at most 2048 bytes) is
\* sent with return value 0 and then received with return value 0 as
\* max(L, 60) bytes, the payload followed by zero bytes, and each of the two
\* calls advances its ring index by one modulo 4.
C11_Loopback ==
    /\ (Returned("send") /\ sent # NoPayload) =>
           /\ ret = 0
           /\ tx_idx = (slot + 1) % NUM_TX_DESC
    /\ (Returned("recv") /\ sent # NoPayload) =>
           /\ ret = 0
           /\ len_out = Max(sent[1], 60)
           /\ buffer.n = Max(sent[1], 60)
           /\ buffer.data = Bytes(sent[1], Max(sent[1], 60) - sent[1], 0)
           /\ rx_idx = (slot + 1) % NUM_RX_DESC

\* what does hold of the loopback: the same, for a send that found the
\* end-of-ring flag still on the last transmit descriptor or took another one
C11_WhileEndOfRingStands ==
    /\ (Returned("send") /\ sent # NoPayload /\ dev_tx < NUM_TX_DESC) =>
           /\ ret = 0
           /\ tx_idx = (slot + 1) % NUM_TX_DESC
    /\ (Returned("recv") /\ sent # NoPayload) =>
           /\ ret = 0
           /\ len_out = Max(sent[1], 60)
           /\ buffer.n = Max(sent[1], 60)
           /\ buffer.data = Bytes(sent[1], Max(sent[1], 60) - sent[1], 0)
           /\ rx_idx = (slot + 1) % NUM_RX_DESC

\* C12: after a successful rtl8125_init, until the next call, every transmit
\* descriptor is host-owned and every receive descriptor was written
\* device-owned with length 2048 and cleaned to memory (where it stands
\* unless the device has handed it back since), each descriptor points to
\* its own buffer, no two buffers overlap, and in each ring the last
\* descriptor alone carries the end-of-ring flag.
C12_AfterInit ==
    (Returned("init") /\ ret = 0) =>
        /\ \A i \in 0..NUM_TX_DESC - 1 :
               LET d == tx_cache[i].d
               IN  /\ tx_cache[i].present /\ ~tx_cache[i].dirty
                   /\ tx_mem[i] = d
                   /\ ~Own(d.status)
                   /\ (DESC_EOR \in d.status.flags) <=> (i = NUM_TX_DESC - 1)
                   /\ d.buf_addr_lo = TX_BUF_BASE + i * TX_BUF_SIZE
                   /\ d.buf_addr_hi = 0
        /\ \A i \in 0..NUM_RX_DESC - 1 :
               LET d == rx_cache[i].d
               IN  /\ rx_cache[i].present /\ ~rx_cache[i].dirty
                   /\ rx_mem[i] = d \/ ~Own(rx_mem[i].status)
                   /\ Own(d.status)
                   /\ d.status.len = RX_BUF_SIZE
                   /\ (DESC_EOR \in d.status.flags) <=> (i = NUM_RX_DESC - 1)
                   /\ d.buf_addr_lo = RX_BUF_BASE + i * RX_BUF_SIZE
                   /\ d.buf_addr_hi = 0
        /\ \A i, j \in 0..NUM_TX_DESC - 1 :
               i < j => tx_cache[i].d.buf_addr_lo + TX_BUF_SIZE <= tx_cache[j].d.buf_addr_lo
        /\ \A i, j \in 0..NUM_RX_DESC - 1 :
               i < j => rx_cache[i].d.buf_addr_lo + RX_BUF_SIZE <= rx_cache[j].d.buf_addr_lo
        /\ tx_cache[NUM_TX_DESC - 1].d.buf_addr_lo + TX_BUF_SIZE <= rx_cache[0].d.buf_addr_lo

\* a second rtl8125_init, made after a send and a receive, has returned 0 and
\* the device has not yet touched the rings
C12_Witness ==
    /\ Returned("init") /\ ret = 0
    /\ tx_idx = 1 /\ rx_idx = 1
    /\ \A i \in 0..NUM_RX_DESC - 1 : Own(rx_mem[i].status)

\* ------------------------------------------------- the window manager
\* dw_pcie_setup_atu has returned, and frame holds the call that returned
AtuReturned == frame.step > Len(AtuProgram(frame)) /\ pc \notin {"atu_write", "atu_poll"}

\* register of the region of the call in frame, by its offset in the region
FrameReg(off) == atu[frame.region * 512 + off]

IsWrite(e) == e[1] = "write"

IsRead(e) == e[1] = "read"

\* C14: when dw_pcie_setup_atu returns success, the region's registers read
\* back as lower/upper base = low/high half of host_addr, lower/upper limit =
\* low/high half of host_addr + size - 1, lower/upper target = low/high half
\* of bus_addr, control1 = type, and control2 reads with bit 31 set
C14_Readback ==
    (AtuReturned /\ frame.ret = 0) =>
        /\ FrameReg(8) = <<frame.cpu_addr[3], frame.cpu_addr[4]>>
        /\ FrameReg(12) = <<frame.cpu_addr[1], frame.cpu_addr[2]>>
        /\ Add64(Join(FrameReg(20), FrameReg(16)), <<0, 0, 0, 1>>)
              = Add64(frame.cpu_addr, frame.size)
        /\ FrameReg(24) = <<frame.pci_addr[3], frame.pci_addr[4]>>
        /\ FrameReg(28) = <<frame.pci_addr[1], frame.pci_addr[2]>>
        /\ FrameReg(0) = frame.type
        /\ ReadCtrl2(frame.region)[1] >= 32768

\* a success whose limit carries into the upper half: 0xFFFFF000 + 0x2000 - 1
C14_Witness ==
    /\ AtuReturned
    /\ frame.ret = 0
    /\ frame.cpu_addr = <<0, 0, 65535, 61440>>
    /\ FrameReg(20) = <<0, 1>>
    /\ FrameReg(16) = <<0, 4095>>

\* what the hardware shows at a read of control2 made now
ShowsEnable == HasEnable(ReadCtrl2(frame.region))

\* a step that reads control2
ReadsCtrl2 == pc = "atu_poll" /\ polls' = polls + 1

C15_State ==
    frame.step > 0 =>
        /\ polls = Len(SelectSeq(log, IsRead))
        /\ polls <= 5
        /\ (AtuReturned /\ frame.ret # 0) => (frame.ret = -1 /\ polls = 5)
        /\ (AtuReturned /\ frame.ret = 0) => polls \in 1..5
        /\ AtuReturned =>
              SelectSeq(log, IsWrite)
                = << <<"write", 8, Lo32(frame.cpu_addr)>>,
                     <<"write", 12, Hi32(frame.cpu_addr)>>,
                     <<"write", 16, Lo32(Dec64(Add64(frame.cpu_addr, frame.size)))>>,
                     <<"write", 20, Hi32(Dec64(Add64(frame.cpu_addr, frame.size)))>>,
                     <<"write", 24, Lo32(frame.pci_addr)>>,
                     <<"write", 28, Hi32(frame.pci_addr)>>,
                     <<"write", 0, frame.type>>,
                     <<"write", 4, <<32768, 0>> >> >>

C15_Step ==
    /\ ReadsCtrl2 =>
          /\ ShowsEnable => (pc' # "atu_poll" /\ frame'.ret = 0)
          /\ ~ShowsEnable => (pc' = "atu_poll" /\ frame'.ret = 0)
    /\ (pc = "atu_poll" /\ pc' # "atu_poll" /\ ~ReadsCtrl2) =>
          (frame'.ret = -1 /\ polls = 5 /\ polls' = polls)
    /\ pc \in {"atu_write", "atu_poll"} =>
          /\ cfg_space' = cfg_space
          /\ \A a \in AtuRegs :
                atu'[a] # atu[a] =>
                    /\ a \in {frame.region * 512 + o : o \in AtuRegOffsets}
                    /\ pc = "atu_write"
                    /\ Len(SelectSeq(log', IsWrite)) = Len(SelectSeq(log, IsWrite)) + 1

\* C15: dw_pcie_setup_atu returns the timeout error after exactly 5 reads of
\* control2 when none showed the enable bit, returns success at the first
\* read that shows it, and writes nothing but the eight programmed values
C15_TimeoutAfterFiveReads == [](C15_State) /\ [][C15_Step]_vars

\* a call made from outside that timed out, five reads made
C15_Witness ==
    /\ AtuReturned
    /\ call = "atu"
    /\ frame.ret = -1
    /\ polls = 5
    /\ ~ShowsEnable

\* the order of the register writes: offsets of lower base, upper base,
\* lower limit, upper limit, lower target, upper target, control1, control2
WriteOrder == <<8, 12, 16, 20, 24, 28, 0, 4>>

\* C16: in every call the writes are issued in the order lower base, upper
\* base, lower limit, upper limit, lower target, upper target, control1,
\* each followed by a barrier, the write of the enable bit to control2 is
\* the last write, and control2 is first read after that write and its barrier
C16_EnableLast ==
    \A i \in 1..Len(log) :
        IF i <= 16
        THEN IF i % 2 = 1
             THEN /\ log[i][1] = "write"
                  /\ log[i][2] = WriteOrder[(i + 1) \div 2]
                  /\ i = 15 => log[i][3][1] >= 32768
             ELSE log[i] = <<"dsb">>
        ELSE IF i % 3 = 0 THEN log[i] = <<"read", 4>> ELSE log[i] = <<"dsb">>

\* the enable written and one read made that did not show it
C16_Witness ==
    /\ pc = "atu_poll"
    /\ Len(log) = 19
    /\ log[15] = <<"write", 4, <<32768, 0>> >>
    /\ log[18] = <<"read", 4>>

\* ------------------------------------------------------- the accessors
\* an accessor has returned, and acc holds the call that returned
AccReturned == Returned("cfg_read") \/ Returned("cfg_write")

\* register of region 1, by its offset in the region
Reg1(off) == atu[512 + off]

C17_State ==
    (AccReturned /\ acc.maps = 1 /\ frame.ret # 0) =>
        /\ acc.raw = 0
        /\ Returned("cfg_read") => ret = <<65535, 65535>>

C17_Step ==
    (pc = "cfg_mapped" /\ frame.ret # 0) =>
        /\ pc' \in {"cfg_mapped", "idle"}
        /\ acc'.raw = 0
        /\ acc'.maps = 1
        /\ cfg_space' = cfg_space
        /\ atu' = atu
        /\ frame' = frame
        /\ log' = log

\* C17: when the reprogramming of region 1 to configuration type times out,
\* pcie_config_read32 makes no raw read and returns 0xFFFFFFFF,
\* pcie_config_write32 makes no raw write, and neither reprograms the region
\* to memory type
C17_NoAccessAfterTimeout == [](C17_State) /\ [][C17_Step]_vars

\* a write that asked for the restore, with a BAR, and whose mapping timed out
C17_Witness ==
    /\ Returned("cfg_write")
    /\ frame.ret = -1
    /\ frame.type = TypeCfg0
    /\ acc.restore
    /\ acc.bar_phys # Zero64
    /\ acc.raw = 0

\* C18: an accessor whose window reprogramming failed reports a failure to
\* its caller: a skipped write returns something, and a failed read returns
\* what no performed read can return
C18_FailureReported ==
    /\ (Returned("cfg_write") /\ acc.raw = 0) => ret # NoValue
    /\ (Returned("cfg_read") /\ acc.raw = 0) => ret \notin CfgValues

\* C19: a write of v at an offset followed by a read of the same offset, both
\* with restore_memory = false and both performed, returns v
C19_RoundTrip ==
    (Returned("cfg_read") /\ sent # NoPayload /\ acc.raw = 1) =>
        /\ acc.offset = sent[1]
        /\ ret = sent[2]

\* the value 0x12345678 written to the register at 0x10 and read back
C19_Witness ==
    /\ Returned("cfg_read")
    /\ sent = << <<0, 16>>, <<4660, 22136>> >>
    /\ acc.raw = 1
    /\ ~acc.restore
    /\ ret = <<4660, 22136>>

C13_Bounded ==
    /\ call = "atu" => polls <= 5
    /\ call = "init" => polls <= 1000
    /\ call = "send" => polls <= 10000
    /\ call = "recv" => (polls + 99) \div 100 <= U32Val(arg_tmo)

\* every turn of a poll loop that stays in the loop leaves less budget
C13_Step ==
    (polls' = polls + 1 /\ pc' = pc) =>
        IF call = "atu" THEN frame'.retries < frame.retries ELSE timeout' < timeout

\* C13: every core operation terminates whatever the hardware does:
\* dw_pcie_setup_atu reads control2 at most 5 times, rtl8125_init polls the
\* reset bit at most 1000 times, rtl8125_send_packet polls ownership at most
\* 10000 times, rtl8125_recv_packet polls at most timeout_ms x 100 times,
\* and every turn of a loop decreases its budget
C13_Terminates ==
    /\ [](C13_Bounded)
    /\ [][C13_Step]_vars
    /\ (pc # "idle") ~> (pc = "idle")

\* a send whose descriptor the device never took, all 10000 polls made
C13_Witness == Returned("send") /\ ret = -1 /\ polls = 10000

\* ------------------------------------------------- receive, error path
\* C29: a receive that obtained its slot with the error flag set issues no
\* buffer invalidate, copies no byte out and does not write *len, yet it
\* re-arms the slot, cleans it and advances rx_idx; a receive without the
\* error flag invalidates the buffer's cache lines once, before the one copy
C29_ErrorSkipsPayload ==
    (Returned("recv") /\ ret = 0) =>
        /\ Count(log, "rearm_status") = 1
        /\ Count(log, "rearm_addr") = 1
        /\ Count(log, "clean_desc") = 1
        /\ rx_idx = (slot + 1) % 4
        /\ IF RX_RES \in st.flags
           THEN /\ Count(log, "inval_buf") = 0
                /\ Count(log, "copy_out") = 0
                /\ buffer = NoBytes
                /\ len_out = NotWritten
           ELSE /\ Count(log, "inval_buf") = 1
                /\ Count(log, "copy_out") = 1
                /\ \A i \in Positions(log, "inval_buf"), j \in Positions(log, "copy_out") :
                      i < j

\* a receive returned from a slot handed back with the error flag
C29_Witness ==
    /\ Returned("recv")
    /\ ret = 0
    /\ RX_RES \in st.flags
    /\ Count(log, "rearm_status") = 1

\* ------------------------------------------------------------- lengths
\* the transmit descriptor and buffer of the slot as the code last wrote them
SlotStatus == CpuView(tx_cache[slot], tx_mem[slot]).status

\* C27: for every accepted len in 0..2048, rtl8125_send_packet writes the
\* payload to the slot's buffer, zero-fills bytes len..59 when len < 60, and
\* sets the status to ownership, start-of-packet, end-of-packet and
\* max(len, 60), the length within the low 14 bits
C27_State ==
    (call = "send" /\ inited /\ arg_len <= 2048
       /\ pc \in {"tx_clean_desc", "tx_kick"}) =>
        /\ tx_buf[slot] = [len |-> arg_len, pad |-> Max(arg_len, 60) - arg_len]
        /\ tx_buf_mem[slot] = tx_buf[slot]
        /\ tx_cache[slot].present
        /\ SlotStatus.len = Max(arg_len, 60)
        /\ SlotStatus.len <= 16383
        /\ SlotStatus.flags = {DESC_OWN, DESC_FS, DESC_LS}

C27_Step ==
    (pc = "tx_status" /\ pc' # pc) =>
        /\ tx_cache'[slot].d.status.flags = {DESC_OWN, DESC_FS, DESC_LS}
        /\ tx_cache'[slot].d.status.len = Max(arg_len, 60)

C27_SendFillsSlot == [](C27_State) /\ [][C27_Step]_vars

\* the largest accepted payload in the last slot of the ring
C27_Witness ==
    /\ call = "send"
    /\ pc = "tx_kick"
    /\ arg_len = 2048
    /\ slot = 3
    /\ SlotStatus.len = 2048

\* C28: on a host-owned slot without the error flag, the bytes copied out
\* and reported in *len are the length field F minus 4, clamped, and exceed
\* neither the caller's buffer nor F
C28_CopyWithinField ==
    (Returned("recv") /\ ret = 0 /\ RX_RES \notin st.flags) =>
        /\ len_out = buffer.n
        /\ len_out <= RX_CALLER_BUF
        /\ len_out <= st.len
        /\ st.len >= 4 => len_out = Min(st.len - 4, RX_BUF_SIZE)

\* the part of C28 that holds: a length field of 4..1028 gives F - 4 bytes
C28_InRange ==
    (Returned("recv") /\ ret = 0 /\ RX_RES \notin st.flags) =>
        /\ len_out = buffer.n
        /\ st.len >= 4 => len_out = Min(st.len - 4, RX_BUF_SIZE)
        /\ st.len \in 4..1028 => (len_out <= RX_CALLER_BUF /\ len_out <= st.len)


\* a caller has returned
DrvReturned(name) == pc = "idle" /\ drv.fn = name /\ drv.step = 0

\* what the i-th accessor call of the returned caller obtained from the
\* register it names: the register's value if the access was made, the
\* 0xFFFFFFFF of a failed configuration read if not
Obtained(i) ==
    IF drv.accs[i][3] = 1 THEN cfg_space[drv.accs[i][2]] ELSE AllOnes32

\* C21: pcie_scan_bus returns -1 exactly when the vendor ID read from offset
\* 0x00 (the low half of the register, or of the 0xFFFFFFFF of a failed read)
\* is 0xFFFF or 0x0000, and has then made the one call for offset 0x00 and
\* none for offset 0x08; otherwise it returns 0 with the vendor ID the low
\* and the device ID the high 16 bits of offset 0x00 and the class code the
\* upper 24 bits of what the read of offset 0x08 obtained.
C21_ScanResult ==
    DrvReturned("scan") =>
        /\ Len(drv.accs) >= 1
        /\ drv.accs[1][1] = "cfg_read"
        /\ drv.accs[1][2] = PCIE_CFG_VENDOR_ID
        /\ drv.ret \in {0, -1}
        /\ (drv.ret = -1) = (Obtained(1)[2] \in {HALF - 1, 0})
        /\ drv.ret = -1 => Len(drv.accs) = 1
        /\ drv.ret = 0 =>
              /\ Len(drv.accs) = 2
              /\ drv.accs[2][1] = "cfg_read"
              /\ drv.accs[2][2] = PCIE_CFG_CLASS_REV
              /\ drv.vendor = Obtained(1)[2]
              /\ drv.device = Obtained(1)[1]
              /\ drv.class = Obtained(2)[1] * 256 + Obtained(2)[2] \div 256

\* a scan has found the RTL8125, another has found a vendor ID of 0, and a
\* third has failed on a read that was never made
C21_Witness ==
    /\ DrvReturned("scan")
    /\ \/ drv.ret = 0 /\ drv.vendor = 4332 /\ drv.device = 33061 /\ drv.class = 131072
       \/ drv.ret = -1 /\ drv.accs[1][3] = 1 /\ cfg_space[PCIE_CFG_VENDOR_ID][2] = 0
       \/ drv.ret = -1 /\ drv.accs[1][3] = 0 /\ cfg_space[PCIE_CFG_VENDOR_ID][2] = 4332

\* C22: when pcie_enable_device returns 0, the device's command register has
\* memory-space enable (bit 1) set, whatever the outcomes of the window
\* reprogramming inside its read, its write-back and its read-back.
C22_EnabledForReal ==
    (DrvReturned("enable") /\ drv.ret = 0) =>
        BitAnd(cfg_space[PCIE_CFG_COMMAND][2], PCIE_CMD_MEM_ENABLE) # 0

\* every accessor call of the caller made its access to the device
AllMade == \A i \in 1..Len(drv.accs) : drv.accs[i][3] = 1

\* C23: a pcie_get_bar_info all of whose configuration accesses were made
\* leaves the BAR register at the value it held before the call, and returns
\* the (addr, size) that the call just before it returned, if that was a
\* pcie_get_bar_info of the same BAR with all of its accesses made.
C23_SizingIdempotent ==
    (DrvReturned("bar") /\ AllMade) =>
        /\ cfg_space[BarOffset] = drv.pre
        /\ drv.prev # NoValue => drv.prev = <<drv.addr, drv.size>>

\* the second of two sizings of the 64-bit BAR at 0x9c0100000 has returned
C23_Witness ==
    /\ DrvReturned("bar")
    /\ AllMade
    /\ Len(drv.accs) = 5
    /\ drv.prev = <<MemWindowCpu, MemWindowSize>>
    /\ drv.addr = MemWindowCpu

\* C24: when pcie_get_bar_info returns, whatever the outcomes of the window
\* reprogramming inside its accessor calls, the BAR register holds the value
\* it held before the call, and the last accessor call of the function is
\* the write of the BAR's offset that restores it.
C24_RestoredLast ==
    DrvReturned("bar") =>
        /\ cfg_space[BarOffset] = drv.pre
        /\ drv.accs[Len(drv.accs)][1] = "cfg_write"
        /\ drv.accs[Len(drv.accs)][2] = BarOffset

\* a 32-bit value with exactly one bit set
OneBit(w) ==
    \E k \in 0..15 : w = <<0, 2 ^ k>> \/ w = <<2 ^ k, 0>>

\* C30: pcie_get_bar_info takes the BAR for an I/O BAR when bit 0 of what the
\* read after the all-ones write obtained is 1 (mask 0xFFFFFFFC) and for a
\* memory BAR when it is 0 (mask 0xFFFFFFF0); size is ~(readback & mask) + 1
\* modulo 2^32, addr is the original value & mask, with the value of the next
\* BAR slot as its upper 32 bits for a memory BAR whose original bits 2:1 are
\* 10, and then only; with all accesses made, the size of a BAR that the
\* device implements is a single bit.
C30_BarFormula ==
    DrvReturned("bar") =>
        LET io   == drv.val[2] % 2 = 1
            mask == IF io THEN <<HALF - 1, HALF - 4>> ELSE <<HALF - 1, HALF - 16>>
            wide == ~io /\ (drv.orig[2] \div 2) % 4 = 2
        IN  /\ Len(drv.accs) = IF wide THEN 5 ELSE 4
            /\ drv.ret = 0
            /\ drv.accs[3][3] = 0 => drv.val = AllOnes32
            /\ AllMade => drv.val = Stored(BarOffset, AllOnes32)
            /\ AllMade => drv.orig = drv.pre
            /\ drv.size = Wide(Neg32(And32(drv.val, mask)))
            /\ Lo32(drv.addr) = And32(drv.orig, mask)
            /\ Hi32(drv.addr) = IF wide THEN Obtained(5) ELSE Zero32
            /\ wide => drv.accs[5][2] = BarOffset + 4
            /\ (AllMade /\ dev_bar.mask # Zero32) => OneBit(Lo32(drv.size))

\* sizings have returned 64 KB at 0x9c0100000 for the 64-bit memory BAR,
\* 8 bytes at 0x1008 for the I/O BAR, and 0 for the BAR not implemented
C30_Witness ==
    /\ DrvReturned("bar")
    /\ AllMade
    /\ \/ drv.size = MemWindowSize /\ drv.addr = MemWindowCpu /\ Len(drv.accs) = 5
       \/ drv.size = <<0, 0, 0, 8>> /\ drv.addr = <<0, 0, 0, 4104>> /\ dev_bar.low = 1
       \/ drv.size = Zero64 /\ dev_bar.mask = Zero32

\* an accessor makes its access to the device in this step
RawAccess == acc.raw = 0 /\ acc'.raw = 1

\* C26: in the order of test_dw_pcie_atu (scan, BAR sizing, enable, first
\* read at the BAR window), each raw configuration access is made while
\* region 1 has read back as enabled and is a configuration window onto the
\* register accessed, and the read at the BAR window is made while region 1
\* has read back as enabled and is a memory window onto the BAR address
\* discovered, whatever the enable outcomes and the BAR's value.
C26_State == (DrvReturned("mem") /\ drv.seq = 4) => drv.accs[1][3] = 1

C26_Step ==
    (RawAccess /\ drv.seq \in 0..2) =>
        /\ frame.region = PCIE_ATU_REGION_INDEX1
        /\ frame.ret = 0
        /\ Region1Serves(AccAddr(acc), TypeCfg0, Wide(acc.offset))

C26_RoleMatches == [](C26_State) /\ [][C26_Step]_vars

\* no dw_pcie_setup_atu of the calls made by the two contexts has timed out
NoTimeout == drv.phase = "run" /\ frame.ret # -1 /\ drv.other.frame.ret # -1

C31_TxIdxTracksDevice == (Returned("send") /\ ret = 0) => tx_idx = dev_tx

\* C32: when rtl8125_init has returned 0, tx_idx and rx_idx are both 0, the
\* positions from which the device that was just reset starts (it is still
\* at transmit descriptor 0, no send having been made since), also when the
\* call follows earlier sends and receives.
C32_InitResetsIndices ==
    (Returned("init") /\ ret = 0) =>
        /\ dev_tx = 0
        /\ tx_idx = 0
        /\ rx_idx = 0

\* ------------------------------------------------- the order of rtl8125_init
\* the operations of the init in progress, or of the last one, that come
\* before position i of its log
InitBefore(i) == {log[j] : j \in 1..(i - 1)}

\* the writes of the descriptor base, configuration and size registers
InitSetupRegs ==
    {"TxDescStartAddr", "TxDescStartAddrH", "RxDescStartAddr", "RxDescStartAddrH",
     "TxConfig", "RxConfig", "MaxRxPacketSize"}

InitRingOps ==
    {<<"desc", "tx", k>> : k \in 0..NUM_TX_DESC - 1}
        \cup {<<"desc", "rx", k>> : k \in 0..NUM_RX_DESC - 1}
        \cup {<<"eor", "tx", NUM_TX_DESC - 1>>, <<"eor", "rx", NUM_RX_DESC - 1>>,
              <<"clean", "tx", NUM_TX_DESC>>, <<"clean", "rx", NUM_RX_DESC>>}

\* C33: in rtl8125_init, every descriptor of both rings is written and
\* cleaned before a descriptor base register is written, so that memory then
\* holds both rings as initialised with no line dirty; transmitter and
\* receiver are enabled after the base, TX/RX configuration and max-RX-size
\* registers are written; all these writes lie after the unlock and before
\* the lock of the configuration registers; and an init whose reset bit is
\* still set after 1000 polls returns -1 having written no descriptor, no
\* base register and no enable, the rings being as they were.
C33_State ==
    call = "init" =>
        /\ \A i \in 1..Len(log) :
              /\ (log[i][1] = "write32" /\ log[i][2] \in {"TxDescStartAddr", "RxDescStartAddr",
                                                          "TxDescStartAddrH",
                                                          "RxDescStartAddrH"}) =>
                    InitRingOps \subseteq InitBefore(i)
              /\ log[i] = <<"write8", "ChipCmd", 12>> =>
                    InitSetupRegs \subseteq {o[2] : o \in InitBefore(i)}
              /\ (log[i][2] \in InitSetupRegs \/ log[i] = <<"write8", "ChipCmd", 12>>) =>
                    /\ <<"write8", "Cfg9346", 192>> \in InitBefore(i)
                    /\ <<"write8", "Cfg9346", 0>> \notin InitBefore(i)
              /\ log[i] = <<"write8", "Cfg9346", 0>> =>
                    <<"write8", "ChipCmd", 12>> \in InitBefore(i)
        /\ (\E i \in 1..Len(log) : log[i][2] \in InitSetupRegs) =>
              /\ tx_mem = [k \in 0..NUM_TX_DESC - 1 |-> Desc(TxInitStatus(k), TxBufAddr(k))]
              /\ rx_mem = [k \in 0..NUM_RX_DESC - 1 |-> Desc(RxInitStatus(k), RxBufAddr(k))]
              /\ \A k \in 0..NUM_TX_DESC - 1 : ~tx_cache[k].dirty
              /\ \A k \in 0..NUM_RX_DESC - 1 : ~rx_cache[k].dirty
        /\ (pc = "idle" /\ ret = 0) => log[Len(log)] = <<"write8", "Cfg9346", 0>>
        /\ (pc = "idle" /\ ret = -1) =>
              /\ polls = RESET_POLL_BUDGET
              /\ log = <<<<"write8", "ChipCmd", 16>>>>

C33_Step ==
    (call = "init" /\ pc # "idle" /\ pc' = "idle" /\ ret' = -1) =>
        /\ ringVars' = ringVars
        /\ inited' = inited

C33_InitOrder == [](C33_State) /\ [][C33_Step]_vars

\* an init has returned 0 after 999 polls of the reset bit, and another has
\* returned -1 after 1000 with rings that an earlier init had set up
C33_Witness ==
    /\ Returned("init")
    /\ \/ ret = 0 /\ polls = RESET_POLL_BUDGET - 1 /\ Len(log) = Len(InitProgram) + 1
       \/ ret = -1 /\ polls = RESET_POLL_BUDGET /\ inited
====
